---------------------------- MODULE Spec2Model ----------------------------
(***************************************************************************)
(* Model of the interpretation core of the PropertyIntel dashboard:        *)
(*   parseQuery            src/dashboard/src/utils.ts 400-758              *)
(*   processAgentResponse  src/dashboard/src/utils.ts 764-833              *)
(*   handleSearch          src/dashboard/src/App.tsx  338-405              *)
(*                                                                         *)
(* JavaScript strings are TLA+ strings.  The three code points outside     *)
(* ASCII that the code uses are written by name: the robot face U+1F916    *)
(* (AgentMarker), the warning sign U+26A0 U+FE0F (inside DegradedPrefix)   *)
(* and the greater-or-equal sign U+2265 (GE).                              *)
(***************************************************************************)
EXTENDS Integers, Sequences, FiniteSets, TLC

(***************************************************************************)
(* String primitives of the JavaScript runtime                             *)
(***************************************************************************)

\* i-th character of s as a one-character string
CharAt(s, i) == SubSeq(s, i, i)

\* String.prototype.includes: k occurs in s as a contiguous substring
includes(s, k) ==
  \E i \in 1..(Len(s) - Len(k) + 1) : SubSeq(s, i, i + Len(k) - 1) = k

UpperChars == "ABCDEFGHIJKLMNOPQRSTUVWXYZ"
LowerChars == "abcdefghijklmnopqrstuvwxyz"

lowerChar(c) ==
  IF \E i \in 1..26 : CharAt(UpperChars, i) = c
    THEN CharAt(LowerChars, CHOOSE i \in 1..26 : CharAt(UpperChars, i) = c)
    ELSE c

IsUpper(c) == \E i \in 1..26 : CharAt(UpperChars, i) = c

RECURSIVE toLowerCase(_)
\* String.prototype.toLowerCase: the text up to the first upper-case letter
\* is kept, the letter is replaced, the rest is converted in turn
toLowerCase(s) ==
  IF \A i \in 1..Len(s) : ~IsUpper(CharAt(s, i)) THEN s
  ELSE LET u == CHOOSE i \in 1..Len(s) :
                  /\ IsUpper(CharAt(s, i))
                  /\ \A j \in 1..(i - 1) : ~IsUpper(CharAt(s, j))
       IN  SubSeq(s, 1, u - 1) \o lowerChar(CharAt(s, u))
             \o toLowerCase(SubSeq(s, u + 1, Len(s)))

IsSpace(c) == c \in {" ", "\t", "\n", "\r"}

\* String.prototype.trim
trim(s) ==
  IF \A i \in 1..Len(s) : IsSpace(CharAt(s, i)) THEN ""
  ELSE LET first == CHOOSE i \in 1..Len(s) :
                      /\ ~IsSpace(CharAt(s, i))
                      /\ \A j \in 1..(i - 1) : IsSpace(CharAt(s, j))
           last  == CHOOSE i \in 1..Len(s) :
                      /\ ~IsSpace(CharAt(s, i))
                      /\ \A j \in (i + 1)..Len(s) : IsSpace(CharAt(s, j))
       IN  SubSeq(s, first, last)

Digits == "0123456789"
IsDigit(c) == \E d \in 1..10 : CharAt(Digits, d) = c
DigitVal(c) == (CHOOSE d \in 1..10 : CharAt(Digits, d) = c) - 1

RECURSIVE NatToString(_)
\* decimal rendering of a natural number, as `${n}` does
NatToString(n) ==
  IF n < 10 THEN CharAt(Digits, n + 1)
  ELSE NatToString(n \div 10) \o CharAt(Digits, (n % 10) + 1)

RECURSIVE parseInt(_)
\* parseInt of a non-empty run of decimal digits
parseInt(ds) ==
  IF Len(ds) = 0 THEN 0
  ELSE 10 * parseInt(SubSeq(ds, 1, Len(ds) - 1)) + DigitVal(CharAt(ds, Len(ds)))

\* first position >= i of s that is not white space (Len(s)+1 when none)
SkipSpaces(s, i) ==
  CHOOSE j \in i..(Len(s) + 1) :
    /\ \A k \in i..(j - 1) : IsSpace(CharAt(s, k))
    /\ (j <= Len(s) => ~IsSpace(CharAt(s, j)))

\* first position >= i of s that is not a digit (Len(s)+1 when none)
SkipDigits(s, i) ==
  CHOOSE j \in i..(Len(s) + 1) :
    /\ \A k \in i..(j - 1) : IsDigit(CharAt(s, k))
    /\ (j <= Len(s) => ~IsDigit(CharAt(s, j)))

\* Array.prototype.join
RECURSIVE join(_, _)
join(parts, sep) ==
  IF Len(parts) = 0 THEN ""
  ELSE IF Len(parts) = 1 THEN parts[1]
  ELSE parts[1] \o sep \o join(Tail(parts), sep)


(***************************************************************************)
(* JavaScript values that are not plain strings or numbers.  A value is a  *)
(* record tagged by t; each tag has its own payload field.  Numbers are    *)
(* fixed-point: n is the number times Scale.                               *)
(***************************************************************************)
Scale == 100

Undefined == [t |-> "undefined"]
Null      == [t |-> "null"]
Bool(b)   == [t |-> "bool", b |-> b]
Num(n)    == [t |-> "num", n |-> n]
Str(s)    == [t |-> "str", s |-> s]
Arr(a)    == [t |-> "arr", a |-> a]
\* an object: o is the sequence of its <<key, value>> pairs
Obj(f)    == [t |-> "obj", o |-> f]
EmptyObj  == Obj(<<>>)

IsNullish(v) == v.t \in {"undefined", "null"}

\* ToBoolean
Truthy(v) ==
  CASE v.t = "undefined" -> FALSE
    [] v.t = "null"      -> FALSE
    [] v.t = "bool"      -> v.b
    [] v.t = "num"       -> v.n # 0
    [] v.t = "str"       -> v.s # ""
    [] OTHER             -> TRUE

\* Own properties of an object: o is a sequence of <<key, value>> pairs in
\* insertion order; a later pair with the same key replaces the earlier one.
HasKey(v, k) == v.t = "obj" /\ \E i \in 1..Len(v.o) : v.o[i][1] = k

\* v.k for a value that is not null or undefined (the caller tests that):
\* the property of an object, length of an array or string, else undefined.
Get(v, k) ==
  IF HasKey(v, k)
    THEN LET i == CHOOSE j \in 1..Len(v.o) :
                    /\ v.o[j][1] = k
                    /\ \A m \in (j + 1)..Len(v.o) : v.o[m][1] # k
         IN  v.o[i][2]
  ELSE IF k = "length" /\ v.t = "arr" THEN Num(Len(v.a) * Scale)
  ELSE IF k = "length" /\ v.t = "str" THEN Num(Len(v.s) * Scale)
  ELSE Undefined

(***************************************************************************)
(* Location records (src/dashboard/src/types.ts 3-32, with the fields the  *)
(* parser reads through the index signature [key: string]: any).  Fields   *)
(* the type declares are plain; fields that may be missing from a record   *)
(* hold a JavaScript value, Undefined when missing.                        *)
(***************************************************************************)
BaseLocation ==
  [ location_id |-> "LOC-0", address |-> "1 Main St", city |-> "Austin",
    state |-> "TX", total_tiv |-> 5000000,
    hurricane |-> 1, earthquake |-> 1, flood_score |-> 1, wildfire |-> 1,
    tornado_hail |-> 1, terrorism |-> 1, surge_risk |-> 1,
    total_claims |-> 0, construction_code |-> "2", year_built |-> 1995,
    sprinkler_status |-> "None", has_recommendations |-> "N",
    named_insured |-> Undefined, occupancy_desc |-> Undefined,
    account_name |-> Undefined, potential_duplicates |-> Undefined,
    data_conflicts |-> Undefined, enrichment_opportunities |-> Undefined,
    available_data |-> Undefined, submission_history |-> Undefined,
    data_quality_issues |-> Undefined ]

\* an MDM-era record: Florida coastal office tower with two duplicate candidates
LocA ==
  [ BaseLocation EXCEPT
      !.location_id = "LOC-1", !.address = "100 Brickell Ave", !.city = "Miami",
      !.state = "FL", !.total_tiv = 80000000, !.hurricane = 8, !.surge_risk = 7,
      !.flood_score = 5, !.total_claims = 35, !.construction_code = "6",
      !.year_built = 2015, !.sprinkler_status = "Fully Sprinklered",
      !.has_recommendations = "Y",
      !.named_insured = Str("Freedom Office Trust"),
      !.occupancy_desc = Str("Office - High Rise"),
      !.account_name = Str("Freedom Office Trust"),
      !.potential_duplicates = Arr(<<"LOC-7", "LOC-9">>),
      !.data_conflicts = Arr(<< [field |-> "sprinkler_status",
                                 conflicting_source |-> Str("ISO Report")] >>),
      !.enrichment_opportunities = Arr(<< [type |-> "sqft", available |-> TRUE] >>),
      !.available_data = Obj(<< <<"nearmap_available", Bool(TRUE)>> >>),
      !.submission_history = Arr(<<"S1", "S2">>),
      !.data_quality_issues = Arr(<<"stale_inspection">>) ]

\* Florida again, low hurricane score, no duplicate candidates
LocB ==
  [ BaseLocation EXCEPT
      !.location_id = "LOC-2", !.address = "7 Gulf Rd", !.city = "Tampa",
      !.state = "FL", !.total_tiv = 8000000, !.hurricane = 2,
      !.year_built = 1970, !.construction_code = "1",
      !.named_insured = Str("Gulf Retail LLC"),
      !.occupancy_desc = Str("Mercantile - Retail"),
      !.account_name = Str("Gulf Retail LLC"),
      !.potential_duplicates = Arr(<<>>),
      !.data_conflicts = Arr(<<>>),
      !.enrichment_opportunities = Arr(<<>>),
      !.available_data = Obj(<< <<"nearmap_available", Bool(FALSE)>> >>),
      !.submission_history = Arr(<<"S1">>),
      !.data_quality_issues = Arr(<<"missing_construction">>) ]

\* California campus with one duplicate candidate
LocC ==
  [ BaseLocation EXCEPT
      !.location_id = "LOC-3", !.address = "200 Century Park", !.city = "Los Angeles",
      !.state = "CA", !.total_tiv = 60000000, !.earthquake = 8, !.wildfire = 5,
      !.total_claims = 3, !.year_built = 1985,
      !.sprinkler_status = "Fully Sprinklered",
      !.named_insured = Str("University of LA"),
      !.occupancy_desc = Str("College / School"),
      !.account_name = Str("University of LA"),
      !.potential_duplicates = Arr(<<"LOC-8">>),
      !.data_conflicts = Arr(<< [field |-> "year_built",
                                 conflicting_source |-> Undefined] >>),
      !.enrichment_opportunities = Arr(<< [type |-> "sqft", available |-> FALSE] >>),
      !.available_data = Obj(<< <<"nearmap_available", Bool(TRUE)>> >>),
      !.submission_history = Arr(<<"S1">>),
      !.data_quality_issues = Arr(<<>>) ]

\* a record of the first data format: types.ts declares no account or MDM
\* field, so none is present
LocD ==
  [ BaseLocation EXCEPT
      !.location_id = "LOC-4", !.address = "1 Times Square", !.city = "New York",
      !.state = "NY", !.total_tiv = 120000000, !.terrorism = 9,
      !.tornado_hail = 6, !.total_claims = 12, !.construction_code = "4",
      !.year_built = 1931, !.has_recommendations = "Y",
      !.named_insured = Str("Midtown Medical Group"),
      !.occupancy_desc = Str("Hospital") ]

\* a warehouse in Texas whose account shares its first word with LocA's
LocE ==
  [ BaseLocation EXCEPT
      !.location_id = "LOC-5", !.address = "55 Dock St", !.city = "Houston",
      !.occupancy_desc = Str("Warehouse"),
      !.account_name = Str("Freedom Logistics"),
      !.potential_duplicates = Arr(<<>>) ]

LocationPool == <<LocA, LocB, LocC, LocD, LocE>>


(***************************************************************************)
(* formatCurrency (utils.ts 372-377) on whole dollar amounts.  toFixed is   *)
(* rendered by rounding half up, which is exact for the thresholds the     *)
(* parser passes (whole millions).                                         *)
(***************************************************************************)
GE == ">="

Pad2(n) == IF n < 10 THEN "0" \o NatToString(n) ELSE NatToString(n)

formatCurrency(value) ==
  IF value >= 1000000000
    THEN LET h == (value + 5000000) \div 10000000
         IN  "$" \o NatToString(h \div 100) \o "." \o Pad2(h % 100) \o "B"
  ELSE IF value >= 1000000
    THEN LET d == (value + 50000) \div 100000
         IN  "$" \o NatToString(d \div 10) \o "." \o NatToString(d % 10) \o "M"
  ELSE IF value >= 1000
    THEN "$" \o NatToString((value + 500) \div 1000) \o "K"
  ELSE "$" \o NatToString(value)

(***************************************************************************)
(* parseQuery (utils.ts 400-758).  The working state of one run is         *)
(*   [result, filters, interpretations, threw]                             *)
(* and each block of the function is one operator from state to state.     *)
(***************************************************************************)
ActiveFilter(id, label, type) == [id |-> id, label |-> label, type |-> type]

\* result = result.filter(...), handed over as kept; filters.push(f);
\* interpretations.push(frag)
ApplyFilter(st, kept, f, frag) ==
  [st EXCEPT !.result = kept,
             !.filters = Append(@, f),
             !.interpretations = Append(@, frag)]

\* v?.toLowerCase().includes(k) in a boolean position
OptLowerIncludes(v, k) == v.t = "str" /\ includes(toLowerCase(v.s), k)

\* v?.length > n
OptLengthAbove(v, n) == v.t = "arr" /\ Len(v.a) > n

\* v?.includes(x) on an array of strings
OptArrayIncludes(v, x) == v.t = "arr" /\ \E i \in 1..Len(v.a) : v.a[i] = x

\* FirstHit gone wrong: the loop does not stop, the last entry found wins
FirstHit_Last(map, q) ==
  IF \E i \in 1..Len(map) : includes(q, map[i][1])
    THEN CHOOSE i \in 1..Len(map) :
           /\ includes(q, map[i][1])
           /\ \A j \in (i + 1)..Len(map) : ~includes(q, map[j][1])
    ELSE 0

\* index of the first entry of a keyword map whose keyword occurs in q, else 0
FirstHit(map, q) ==
  IF \E i \in 1..Len(map) : includes(q, map[i][1])
    THEN CHOOSE i \in 1..Len(map) :
           /\ includes(q, map[i][1])
           /\ \A j \in 1..(i - 1) : ~includes(q, map[j][1])
    ELSE 0

stateMap ==
  << <<"florida", "FL">>, <<"fl", "FL">>,
     <<"california", "CA">>, <<"ca", "CA">>, <<"cali", "CA">>,
     <<"texas", "TX">>, <<"tx", "TX">>,
     <<"new york", "NY">>, <<"ny", "NY">>, <<"nyc", "NY">>, <<"manhattan", "NY">>,
     <<"illinois", "IL">>, <<"il", "IL">>, <<"chicago", "IL">>,
     <<"massachusetts", "MA">>, <<"ma", "MA">>, <<"boston", "MA">>,
     <<"washington", "WA">>, <<"wa", "WA">>, <<"seattle", "WA">>,
     <<"new jersey", "NJ">>, <<"nj", "NJ">>,
     <<"georgia", "GA">>, <<"ga", "GA">>, <<"atlanta", "GA">>,
     <<"pennsylvania", "PA">>, <<"pa", "PA">>, <<"philadelphia", "PA">>,
     <<"philly", "PA">>,
     <<"miami", "FL">>, <<"brickell", "FL">> >>

cityMap ==
  << <<"times square", "New York">>, <<"midtown", "New York">>,
     <<"downtown la", "Los Angeles">>, <<"century city", "Los Angeles">>,
     <<"loop", "Chicago">>, <<"costa mesa", "Costa Mesa">>,
     <<"austin", "Austin">>, <<"dallas", "Dallas">>, <<"houston", "Houston">>,
     <<"jersey city", "Jersey City">> >>

StateFilter(q, st) ==
  LET i == FirstHit(stateMap, q) IN
  IF i = 0 THEN st
  ELSE LET state == stateMap[i][2]
       IN  ApplyFilter(st, SelectSeq(st.result, LAMBDA l : l.state = state),
                       ActiveFilter("state-" \o state, state, "state"), state)

CityFilter(q, st) ==
  LET i == FirstHit(cityMap, q) IN
  IF i = 0 THEN st
  ELSE LET city == cityMap[i][2]
       IN  ApplyFilter(st, SelectSeq(st.result, LAMBDA l : l.city = city),
                       ActiveFilter("city-" \o city, city, "city"), city)

HurricaneFilter(q, st) ==
  IF includes(q, "hurricane") \/ includes(q, "wind")
    THEN LET highRisk == includes(q, "high") \/ includes(q, "severe")
                           \/ includes(q, "extreme")
             threshold == IF highRisk THEN 7 ELSE 5
         IN  ApplyFilter(st, SelectSeq(st.result, LAMBDA l : l.hurricane >= threshold),
                         ActiveFilter("hurricane",
                                      "Hurricane " \o GE \o NatToString(threshold),
                                      "peril"),
                         "high hurricane risk")
    ELSE st

EarthquakeFilter(q, st) ==
  IF includes(q, "earthquake") \/ includes(q, "seismic")
    THEN LET highRisk == includes(q, "high") \/ includes(q, "severe")
             threshold == IF highRisk THEN 7 ELSE 5
         IN  ApplyFilter(st, SelectSeq(st.result, LAMBDA l : l.earthquake >= threshold),
                         ActiveFilter("earthquake",
                                      "Earthquake " \o GE \o NatToString(threshold),
                                      "peril"),
                         "earthquake exposure")
    ELSE st

FloodFilter(q, st) ==
  IF includes(q, "flood")
    THEN LET highRisk == includes(q, "high") \/ includes(q, "zone a")
                           \/ includes(q, "severe")
             threshold == IF highRisk THEN 5 ELSE 3
         IN  ApplyFilter(st, SelectSeq(st.result, LAMBDA l : l.flood_score >= threshold),
                         ActiveFilter("flood",
                                      "Flood " \o GE \o NatToString(threshold),
                                      "peril"),
                         "flood risk")
    ELSE st

WildfireFilter(q, st) ==
  IF includes(q, "wildfire") \/ includes(q, "fire risk") \/ includes(q, "brush")
    THEN ApplyFilter(st, SelectSeq(st.result, LAMBDA l : l.wildfire >= 4),
                     ActiveFilter("wildfire", "Wildfire " \o GE \o "4", "peril"),
                     "wildfire exposure")
    ELSE st

TornadoFilter(q, st) ==
  IF includes(q, "tornado") \/ includes(q, "hail") \/ includes(q, "convective")
    THEN ApplyFilter(st, SelectSeq(st.result, LAMBDA l : l.tornado_hail >= 5),
                     ActiveFilter("tornado", "Tornado/Hail " \o GE \o "5", "peril"),
                     "tornado/hail risk")
    ELSE st

TerrorismFilter(q, st) ==
  IF includes(q, "terrorism") \/ includes(q, "terror")
    THEN ApplyFilter(st, SelectSeq(st.result, LAMBDA l : l.terrorism >= 7),
                     ActiveFilter("terrorism", "Terrorism " \o GE \o "7", "peril"),
                     "terrorism exposure")
    ELSE st

SurgeFilter(q, st) ==
  IF includes(q, "surge") \/ includes(q, "storm surge") \/ includes(q, "coastal")
    THEN ApplyFilter(st, SelectSeq(st.result, LAMBDA l : l.surge_risk >= 5),
                     ActiveFilter("surge", "Surge " \o GE \o "5", "peril"),
                     "storm surge risk")
    ELSE st


\* q.match(/over\s*\$?\d+\s*m/i) on the lower-cased query
MatchesOverAmount(q) ==
  \E i \in 1..(Len(q) - 3) :
    /\ SubSeq(q, i, i + 3) = "over"
    /\ LET j == SkipSpaces(q, i + 4)
           k == IF j <= Len(q) /\ CharAt(q, j) = "$" THEN j + 1 ELSE j
           e == SkipDigits(q, k)
           m == SkipSpaces(q, e)
       IN  e > k /\ m <= Len(q) /\ CharAt(q, m) = "m"

\* start positions at which /(\d+)\s*m/ matches
AmountStarts(q) ==
  { i \in 1..Len(q) :
      /\ IsDigit(CharAt(q, i))
      /\ LET m == SkipSpaces(q, SkipDigits(q, i))
         IN  m <= Len(q) /\ CharAt(q, m) = "m" }

\* q.match(/(\d+)\s*m/i): the digits of the leftmost match, "" when no match
AmountMatch(q) ==
  IF AmountStarts(q) = {} THEN ""
  ELSE LET i == CHOOSE a \in AmountStarts(q) : \A b \in AmountStarts(q) : a <= b
       IN  SubSeq(q, i, SkipDigits(q, i) - 1)

HighTivFilter(q, st) ==
  IF \/ includes(q, "high value") \/ includes(q, "large") \/ includes(q, "big")
     \/ MatchesOverAmount(q)
     \/ includes(q, "tiv over") \/ includes(q, "above 50") \/ includes(q, "over 50")
    THEN LET match == AmountMatch(q)
             threshold == IF match # "" THEN parseInt(match) * 1000000
                                        ELSE 50000000
         IN  ApplyFilter(st, SelectSeq(st.result, LAMBDA l : l.total_tiv >= threshold),
                         ActiveFilter("high-tiv",
                                      "TIV " \o GE \o formatCurrency(threshold),
                                      "tiv"),
                         "high value")
    ELSE st

LowTivFilter(q, st) ==
  IF \/ includes(q, "small") \/ includes(q, "low value")
     \/ includes(q, "under 10") \/ includes(q, "below 10")
    THEN ApplyFilter(st, SelectSeq(st.result, LAMBDA l : l.total_tiv < 10000000),
                     ActiveFilter("low-tiv", "TIV <$10M", "tiv"),
                     "smaller properties")
    ELSE st

SprinklerFilter(q, st) ==
  IF includes(q, "sprinkler") \/ includes(q, "protected")
       \/ includes(q, "fire protected")
    THEN IF \/ includes(q, "no ") \/ includes(q, "not ") \/ includes(q, "without")
            \/ includes(q, "unprotected") \/ includes(q, "non-sprinkler")
           THEN ApplyFilter(st, SelectSeq(st.result, LAMBDA l : l.sprinkler_status # "Fully Sprinklered"),
                            ActiveFilter("no-sprinkler", "Not Sprinklered", "protection"),
                            "not sprinklered")
           ELSE ApplyFilter(st, SelectSeq(st.result, LAMBDA l : l.sprinkler_status = "Fully Sprinklered"),
                            ActiveFilter("sprinkler", "Sprinklered", "protection"),
                            "sprinklered")
    ELSE st

FrameFilter(q, st) ==
  IF includes(q, "frame") \/ includes(q, "wood")
    THEN ApplyFilter(st, SelectSeq(st.result, LAMBDA l : l.construction_code = "1"),
                     ActiveFilter("frame", "Frame Construction", "construction"),
                     "frame construction")
    ELSE st

FireResistiveFilter(q, st) ==
  IF includes(q, "fire resistive") \/ includes(q, "class 6") \/ includes(q, "steel")
    THEN ApplyFilter(st, SelectSeq(st.result, LAMBDA l : l.construction_code = "6"),
                     ActiveFilter("fire-resistive", "Fire Resistive", "construction"),
                     "fire resistive")
    ELSE st

MasonryFilter(q, st) ==
  IF includes(q, "masonry")
    THEN ApplyFilter(st, SelectSeq(st.result, LAMBDA l : l.construction_code \in {"2", "4"}),
                     ActiveFilter("masonry", "Masonry", "construction"),
                     "masonry construction")
    ELSE st

OldFilter(q, st) ==
  IF \/ includes(q, "old") \/ includes(q, "vintage") \/ includes(q, "pre-1980")
     \/ includes(q, "before 1980") \/ includes(q, "aging")
    THEN ApplyFilter(st, SelectSeq(st.result, LAMBDA l : l.year_built < 1980),
                     ActiveFilter("old", "Built before 1980", "age"),
                     "older buildings")
    ELSE st

NewFilter(q, st) ==
  IF \/ includes(q, "new") \/ includes(q, "recent") \/ includes(q, "modern")
     \/ includes(q, "after 2010") \/ includes(q, "post-2010")
    THEN ApplyFilter(st, SelectSeq(st.result, LAMBDA l : l.year_built >= 2010),
                     ActiveFilter("new", "Built 2010+", "age"),
                     "newer buildings")
    ELSE st

RecommendationsFilter(q, st) ==
  IF \/ includes(q, "recommendation") \/ includes(q, "alert")
     \/ includes(q, "action") \/ includes(q, "risk control")
     \/ includes(q, "attention") \/ includes(q, "issues")
     \/ includes(q, "concerns") \/ includes(q, "gaps")
    THEN ApplyFilter(st, SelectSeq(st.result, LAMBDA l : l.has_recommendations = "Y"),
                     ActiveFilter("recommendations", "Has Alerts", "status"),
                     "with recommendations")
    ELSE st

ClaimsFilter(q, st) ==
  IF includes(q, "claims") \/ includes(q, "losses") \/ includes(q, "loss history")
    THEN IF includes(q, "high") \/ includes(q, "many") \/ includes(q, "frequent")
           THEN ApplyFilter(st, SelectSeq(st.result, LAMBDA l : l.total_claims >= 30),
                            ActiveFilter("high-claims", "Claims " \o GE \o "30", "claims"),
                            "high claims")
         ELSE IF includes(q, "no ") \/ includes(q, "zero") \/ includes(q, "clean")
           THEN ApplyFilter(st, SelectSeq(st.result, LAMBDA l : l.total_claims = 0),
                            ActiveFilter("no-claims", "No Claims", "claims"),
                            "no claims")
         ELSE ApplyFilter(st, SelectSeq(st.result, LAMBDA l : l.total_claims > 0),
                          ActiveFilter("has-claims", "Has Claims", "claims"),
                          "with claims")
    ELSE st

OfficeFilter(q, st) ==
  IF includes(q, "office")
    THEN ApplyFilter(st, SelectSeq(st.result, LAMBDA l : OptLowerIncludes(l.occupancy_desc, "office")),
                     ActiveFilter("office", "Office", "occupancy"), "office")
    ELSE st

RetailFilter(q, st) ==
  IF \/ includes(q, "retail") \/ includes(q, "mercantile")
     \/ includes(q, "mall") \/ includes(q, "shopping")
    THEN ApplyFilter(st, SelectSeq(st.result, LAMBDA l : \/ OptLowerIncludes(l.occupancy_desc, "mercantile")
                                                          \/ OptLowerIncludes(l.occupancy_desc, "retail")),
                     ActiveFilter("retail", "Retail", "occupancy"), "retail")
    ELSE st

WarehouseFilter(q, st) ==
  IF includes(q, "warehouse") \/ includes(q, "distribution")
    THEN ApplyFilter(st, SelectSeq(st.result, LAMBDA l : OptLowerIncludes(l.occupancy_desc, "warehouse")),
                     ActiveFilter("warehouse", "Warehouse", "occupancy"), "warehouse")
    ELSE st

HighRiseFilter(q, st) ==
  IF \/ includes(q, "high rise") \/ includes(q, "highrise")
     \/ includes(q, "tall") \/ includes(q, "tower")
    THEN ApplyFilter(st, SelectSeq(st.result, LAMBDA l : OptLowerIncludes(l.occupancy_desc, "high rise")),
                     ActiveFilter("highrise", "High Rise", "occupancy"), "high rise")
    ELSE st


\* the entries arr?.some(...) tests: those of an array-valued field, none when
\* the field is missing
OptEntries(v) == IF v.t = "arr" THEN { v.a[i] : i \in 1..Len(v.a) } ELSE {}

DuplicatesFilter(q, st) ==
  IF includes(q, "duplicate") \/ includes(q, "duplicates")
       \/ includes(q, "potential match")
    THEN ApplyFilter(st, SelectSeq(st.result, LAMBDA l : OptLengthAbove(l.potential_duplicates, 0)),
                     ActiveFilter("duplicates", "Has Duplicates", "mdm"),
                     "with potential duplicates")
    ELSE st

ConflictsFilter(q, st) ==
  IF \/ includes(q, "conflict") \/ includes(q, "conflicts")
     \/ includes(q, "discrepan") \/ includes(q, "mismatch")
    THEN ApplyFilter(st, SelectSeq(st.result, LAMBDA l : OptLengthAbove(l.data_conflicts, 0)),
                     ActiveFilter("conflicts", "Has Conflicts", "mdm"),
                     "with data conflicts")
    ELSE st

SprinklerConflictsFilter(q, st) ==
  IF includes(q, "sprinkler conflict") \/ includes(q, "sprinkler mismatch")
    THEN ApplyFilter(st,
                     SelectSeq(st.result, LAMBDA l : \E c \in OptEntries(l.data_conflicts) :
                                                       c.field = "sprinkler_status"),
                     ActiveFilter("sprinkler-conflicts", "Sprinkler Conflicts", "mdm"),
                     "with sprinkler conflicts")
    ELSE st

EnrichmentFilter(q, st) ==
  IF \/ includes(q, "enrich") \/ includes(q, "enrichment")
     \/ (includes(q, "need") /\ includes(q, "data"))
    THEN ApplyFilter(st, SelectSeq(st.result, LAMBDA l : OptLengthAbove(l.enrichment_opportunities, 0)),
                     ActiveFilter("enrichment", "Needs Enrichment", "mdm"),
                     "needing enrichment")
    ELSE st

NearmapFilter(q, st) ==
  IF includes(q, "nearmap")
    THEN IF includes(q, "need") \/ includes(q, "enrichment") \/ includes(q, "missing")
           THEN ApplyFilter(st,
                            SelectSeq(st.result, LAMBDA l : \E e \in OptEntries(l.enrichment_opportunities) :
                                                              e.type = "sqft" /\ e.available),
                            ActiveFilter("nearmap-enrich", "Nearmap Available", "mdm"),
                            "with Nearmap enrichment available")
           ELSE ApplyFilter(st,
                            SelectSeq(st.result, LAMBDA l : /\ ~IsNullish(l.available_data)
                                                            /\ Truthy(Get(l.available_data, "nearmap_available"))),
                            ActiveFilter("nearmap", "Has Nearmap", "data"),
                            "with Nearmap imagery")
    ELSE st

IsoConflictsFilter(q, st) ==
  IF includes(q, "iso") /\ (includes(q, "conflict") \/ includes(q, "report"))
    THEN ApplyFilter(st,
                     SelectSeq(st.result, LAMBDA l : \E c \in OptEntries(l.data_conflicts) :
                                                       /\ c.conflicting_source.t = "str"
                                                       /\ includes(c.conflicting_source.s, "ISO")),
                     ActiveFilter("iso-conflicts", "ISO Conflicts", "mdm"),
                     "with ISO report conflicts")
    ELSE st

MultiSubmitFilter(q, st) ==
  IF \/ (includes(q, "multiple") /\ includes(q, "submis"))
     \/ (includes(q, "submitted") /\ (includes(q, "multiple") \/ includes(q, "times")))
    THEN ApplyFilter(st, SelectSeq(st.result, LAMBDA l : OptLengthAbove(l.submission_history, 1)),
                     ActiveFilter("multi-submit", "Multiple Submissions", "mdm"),
                     "submitted multiple times")
    ELSE st

StaleInspectionFilter(q, st) ==
  IF \/ includes(q, "stale")
     \/ (includes(q, "inspection") /\ (includes(q, "old") \/ includes(q, "overdue")))
    THEN ApplyFilter(st,
                     SelectSeq(st.result, LAMBDA l : OptArrayIncludes(l.data_quality_issues, "stale_inspection")),
                     ActiveFilter("stale-inspection", "Stale Inspection", "mdm"),
                     "with stale inspections")
    ELSE st

MissingConstructionFilter(q, st) ==
  IF includes(q, "missing") /\ includes(q, "construction")
    THEN ApplyFilter(st,
                     SelectSeq(st.result, LAMBDA l : OptArrayIncludes(l.data_quality_issues, "missing_construction")),
                     ActiveFilter("missing-const", "Missing Construction", "mdm"),
                     "missing construction data")
    ELSE st

\* s.split(' ')[0]
FirstWord(s) ==
  IF \E i \in 1..Len(s) : CharAt(s, i) = " "
    THEN LET i == CHOOSE a \in 1..Len(s) :
                    /\ CharAt(s, a) = " "
                    /\ \A b \in 1..(a - 1) : CharAt(s, b) # " "
         IN  SubSeq(s, 1, i - 1)
    ELSE s

\* [...new Set(locations.map(l => l.account_name))]: the distinct values in
\* order of first occurrence
accountNames(locs) ==
  LET names == [i \in 1..Len(locs) |-> locs[i].account_name]
      keep  == { i \in 1..Len(names) : \A j \in 1..(i - 1) : names[j] # names[i] }
      RECURSIVE pick(_)
      pick(i) == IF i > Len(names) THEN <<>>
                 ELSE IF i \in keep THEN <<names[i]>> \o pick(i + 1)
                 ELSE pick(i + 1)
  IN  pick(1)

\* the for loop over accountNames from index i: "throw" when toLowerCase is
\* called on a name that is not a string, "hit" at the first name whose first
\* word occurs in q, "none" when the loop runs out
RECURSIVE AccountScan(_, _, _)
AccountScan(names, q, i) ==
  IF i > Len(names) THEN [kind |-> "none"]
  ELSE IF names[i].t # "str" THEN [kind |-> "throw"]
  ELSE IF includes(toLowerCase(q), toLowerCase(FirstWord(toLowerCase(names[i].s))))
    THEN [kind |-> "hit", accName |-> names[i].s]
  ELSE AccountScan(names, q, i + 1)

\* AccountFilter gone wrong: the account's records are taken from all
\* locations instead of the working set
AccountFilter_FromAll(q, locs, st) ==
  IF \/ includes(q, "customer 360") \/ includes(q, "account")
     \/ (includes(q, "show all") /\ includes(q, "for"))
    THEN LET scan == AccountScan(accountNames(locs), q, 1) IN
         IF scan.kind = "throw" THEN [st EXCEPT !.threw = TRUE]
         ELSE IF scan.kind = "hit"
           THEN ApplyFilter(st, SelectSeq(locs, LAMBDA l : l.account_name = Str(scan.accName)),
                            ActiveFilter("account-" \o scan.accName, scan.accName,
                                         "account"),
                            scan.accName \o " (Customer 360)")
         ELSE st
    ELSE st

AccountFilter(q, locs, st) ==
  IF \/ includes(q, "customer 360") \/ includes(q, "account")
     \/ (includes(q, "show all") /\ includes(q, "for"))
    THEN LET scan == AccountScan(accountNames(locs), q, 1) IN
         IF scan.kind = "throw" THEN [st EXCEPT !.threw = TRUE]
         ELSE IF scan.kind = "hit"
           THEN ApplyFilter(st, SelectSeq(st.result, LAMBDA l : l.account_name = Str(scan.accName)),
                            ActiveFilter("account-" \o scan.accName, scan.accName,
                                         "account"),
                            scan.accName \o " (Customer 360)")
         ELSE st
    ELSE st

HealthcareFilter(q, st) ==
  IF includes(q, "healthcare") \/ includes(q, "hospital") \/ includes(q, "medical")
    THEN ApplyFilter(st,
                     SelectSeq(st.result, LAMBDA l : \/ OptLowerIncludes(l.occupancy_desc, "hospital")
                                                     \/ OptLowerIncludes(l.occupancy_desc, "medical")
                                                     \/ OptLowerIncludes(l.account_name, "medical")
                                                     \/ OptLowerIncludes(l.account_name, "health")),
                     ActiveFilter("healthcare", "Healthcare", "occupancy"),
                     "healthcare")
    ELSE st

UniversityFilter(q, st) ==
  IF includes(q, "university") \/ includes(q, "college") \/ includes(q, "campus")
    THEN ApplyFilter(st,
                     SelectSeq(st.result, LAMBDA l : \/ OptLowerIncludes(l.occupancy_desc, "college")
                                                     \/ OptLowerIncludes(l.occupancy_desc, "school")
                                                     \/ OptLowerIncludes(l.account_name, "university")
                                                     \/ OptLowerIncludes(l.account_name, "college")),
                     ActiveFilter("university", "University", "occupancy"),
                     "university/college")
    ELSE st

\* AddressFallback gone wrong: the search runs over the whole pool of records
\* instead of the record set that was passed in
AddressFallback_WholePool(text, q, locs, st) ==
  IF Len(st.filters) = 0
    THEN LET addressMatch ==
               SelectSeq(LocationPool,
                         LAMBDA l : \/ includes(toLowerCase(l.address), q)
                                    \/ includes(toLowerCase(l.city), q)
                                    \/ OptLowerIncludes(l.named_insured, q)
                                    \/ includes(toLowerCase(l.location_id), q))
         IN  IF Len(addressMatch) > 0
               THEN [st EXCEPT !.result = addressMatch,
                               !.interpretations =
                                  Append(@, "matching \"" \o text \o "\"")]
               ELSE st
    ELSE st

\* the address/location search that runs when no filter was pushed
AddressFallback(text, q, locs, st) ==
  IF Len(st.filters) = 0
    THEN LET addressMatch ==
               SelectSeq(locs,
                         LAMBDA l : \/ includes(toLowerCase(l.address), q)
                                    \/ includes(toLowerCase(l.city), q)
                                    \/ OptLowerIncludes(l.named_insured, q)
                                    \/ includes(toLowerCase(l.location_id), q))
         IN  IF Len(addressMatch) > 0
               THEN [st EXCEPT !.result = addressMatch,
                               !.interpretations =
                                  Append(@, "matching \"" \o text \o "\"")]
               ELSE st
    ELSE st

\* BuildInterpretation gone wrong: the noun is plural for every count
BuildInterpretation_AlwaysPlural(text, st) ==
  IF Len(st.result) = 0 THEN "No locations match: " \o text
  ELSE IF Len(st.interpretations) > 0
    THEN NatToString(Len(st.result)) \o " locations: "
           \o join(st.interpretations, " + ")
  ELSE NatToString(Len(st.result)) \o " locations found"

\* the interpretation string built from the final result
BuildInterpretation(text, st) ==
  LET n      == Len(st.result)
      plural == IF n # 1 THEN "s" ELSE ""
  IN  IF n = 0 THEN "No locations match: " \o text
      ELSE IF Len(st.interpretations) > 0
        THEN NatToString(n) \o " location" \o plural \o ": "
               \o join(st.interpretations, " + ")
      ELSE NatToString(n) \o " location" \o plural \o " found"

\* ShortCircuitTokens gone wrong: the two-word token is left out
ShortCircuitTokens_NoShowAll == {"", "all", "reset", "clear"}

ShortCircuitTokens == {"", "all", "reset", "clear", "show all"}

\* the blocks of parseQuery in the order of the source; a block is skipped
\* once an earlier one has thrown
RunBlock(k, text, q, locs, st) ==
  IF st.threw THEN st
  ELSE CASE k = 1  -> StateFilter(q, st)
         [] k = 2  -> CityFilter(q, st)
         [] k = 3  -> HurricaneFilter(q, st)
         [] k = 4  -> EarthquakeFilter(q, st)
         [] k = 5  -> FloodFilter(q, st)
         [] k = 6  -> WildfireFilter(q, st)
         [] k = 7  -> TornadoFilter(q, st)
         [] k = 8  -> TerrorismFilter(q, st)
         [] k = 9  -> SurgeFilter(q, st)
         [] k = 10 -> HighTivFilter(q, st)
         [] k = 11 -> LowTivFilter(q, st)
         [] k = 12 -> SprinklerFilter(q, st)
         [] k = 13 -> FrameFilter(q, st)
         [] k = 14 -> FireResistiveFilter(q, st)
         [] k = 15 -> MasonryFilter(q, st)
         [] k = 16 -> OldFilter(q, st)
         [] k = 17 -> NewFilter(q, st)
         [] k = 18 -> RecommendationsFilter(q, st)
         [] k = 19 -> ClaimsFilter(q, st)
         [] k = 20 -> OfficeFilter(q, st)
         [] k = 21 -> RetailFilter(q, st)
         [] k = 22 -> WarehouseFilter(q, st)
         [] k = 23 -> HighRiseFilter(q, st)
         [] k = 24 -> DuplicatesFilter(q, st)
         [] k = 25 -> ConflictsFilter(q, st)
         [] k = 26 -> SprinklerConflictsFilter(q, st)
         [] k = 27 -> EnrichmentFilter(q, st)
         [] k = 28 -> NearmapFilter(q, st)
         [] k = 29 -> IsoConflictsFilter(q, st)
         [] k = 30 -> MultiSubmitFilter(q, st)
         [] k = 31 -> StaleInspectionFilter(q, st)
         [] k = 32 -> MissingConstructionFilter(q, st)
         [] k = 33 -> AccountFilter(q, locs, st)
         [] k = 34 -> HealthcareFilter(q, st)
         [] k = 35 -> UniversityFilter(q, st)
         [] k = 36 -> AddressFallback(text, q, locs, st)

NumBlocks == 36

\* AfterBlocks gone wrong: the blocks run in the reverse of the source order
RECURSIVE AfterBlocks_Reversed(_, _, _, _)
AfterBlocks_Reversed(k, text, q, locs) ==
  IF k = 0
    THEN [result |-> locs, filters |-> <<>>, interpretations |-> <<>>,
          threw |-> FALSE]
    ELSE RunBlock(NumBlocks + 1 - k, text, q, locs,
                  AfterBlocks_Reversed(k - 1, text, q, locs))

\* the working state after the first k blocks
RECURSIVE AfterBlocks(_, _, _, _)
AfterBlocks(k, text, q, locs) ==
  IF k = 0
    THEN [result |-> locs, filters |-> <<>>, interpretations |-> <<>>,
          threw |-> FALSE]
    ELSE RunBlock(k, text, q, locs, AfterBlocks(k - 1, text, q, locs))

\* what a call returns: a SearchResult, or threw = TRUE when it raised
Thrown == [threw |-> TRUE]
SearchResult(locs, filters, interp) ==
  [threw |-> FALSE, locations |-> locs, filters |-> filters,
   interpretation |-> interp]

parseQuery(text, locs) ==
  LET q == trim(toLowerCase(text)) IN
  IF q \in ShortCircuitTokens
    THEN SearchResult(locs, <<>>, "Showing all locations")
    ELSE LET st == AfterBlocks(NumBlocks, text, q, locs)
         IN  IF st.threw THEN Thrown
             ELSE SearchResult(st.result, st.filters, BuildInterpretation(text, st))


(***************************************************************************)
(* JSON.parse over the characters of a text.  A parse step returns         *)
(* [ok, v, next]: the value read and the position after it, or ok = FALSE  *)
(* for a SyntaxError.  Covered grammar: objects, arrays, strings with the  *)
(* escapes \" \\ \/ \n \t \r, numbers without exponent (two fraction    *)
(* digits are kept), true, false, null.                                    *)
(***************************************************************************)
Fail == [ok |-> FALSE]
Ok(v, next) == [ok |-> TRUE, v |-> v, next |-> next]

StartsAt(s, i, w) == i + Len(w) - 1 <= Len(s) /\ SubSeq(s, i, i + Len(w) - 1) = w

\* the text of a string token with its escapes \" \\ \/ \n \t \r decoded;
\* ok = FALSE on any other escape
RECURSIVE Unescape(_)
Unescape(s) ==
  IF \A i \in 1..Len(s) : CharAt(s, i) # "\\" THEN [ok |-> TRUE, s |-> s]
  ELSE LET b == CHOOSE i \in 1..Len(s) :
                  /\ CharAt(s, i) = "\\"
                  /\ \A j \in 1..(i - 1) : CharAt(s, j) # "\\"
       IN  IF b = Len(s) THEN [ok |-> FALSE]
           ELSE LET e    == CharAt(s, b + 1)
                    rest == Unescape(SubSeq(s, b + 2, Len(s)))
                    d    == IF e = "n" THEN "\n"
                            ELSE IF e = "t" THEN "\t"
                            ELSE IF e = "r" THEN "\r"
                            ELSE e
                IN  IF e \notin {"\"", "\\", "/", "n", "t", "r"} \/ ~rest.ok
                      THEN [ok |-> FALSE]
                      ELSE [ok |-> TRUE, s |-> SubSeq(s, 1, b - 1) \o d \o rest.s]

\* the number of consecutive backslashes that end just before position j
RECURSIVE BackslashesBefore(_, _)
BackslashesBefore(s, j) ==
  IF j > 1 /\ CharAt(s, j - 1) = "\\" THEN 1 + BackslashesBefore(s, j - 1) ELSE 0

\* the positions after i of the quotes that are not escaped
ClosingQuotes(s, i) ==
  { j \in (i + 1)..Len(s) :
      CharAt(s, j) = "\"" /\ BackslashesBefore(s, j) % 2 = 0 }

\* a string token whose opening quote is at i
ParseString(s, i) ==
  LET quotes == ClosingQuotes(s, i) IN
  IF quotes = {} THEN Fail
  ELSE LET j    == CHOOSE a \in quotes : \A b \in quotes : a <= b
           raw  == SubSeq(s, i + 1, j - 1)
           text == Unescape(raw)
       IN  IF (\E k \in 1..Len(raw) : CharAt(raw, k) \in {"\n", "\t", "\r"})
                \/ ~text.ok
             THEN Fail
             ELSE Ok(Str(text.s), j + 1)

Signed(neg, mag) == IF neg THEN 0 - mag ELSE mag

\* a number whose fraction digits run from intEnd + 1 up to f
Fraction(s, neg, whole, intEnd, f) ==
  IF f = intEnd + 1 THEN Fail
  ELSE Ok(Num(Signed(neg,
                whole * Scale
                  + 10 * DigitVal(CharAt(s, intEnd + 1))
                  + (IF f > intEnd + 2 THEN DigitVal(CharAt(s, intEnd + 2))
                     ELSE 0))),
          f)

\* a number whose integer digits are s[a..intEnd-1]
IntegerPart(s, neg, a, intEnd) ==
  IF intEnd <= Len(s) /\ CharAt(s, intEnd) = "."
    THEN Fraction(s, neg, parseInt(SubSeq(s, a, intEnd - 1)), intEnd,
                  SkipDigits(s, intEnd + 1))
    ELSE Ok(Num(Signed(neg, parseInt(SubSeq(s, a, intEnd - 1)) * Scale)), intEnd)

\* a number whose digits start at a and run up to e; a leading 0 stands alone
DigitRun(s, neg, a, e) ==
  IF e = a THEN Fail
  ELSE IntegerPart(s, neg, a, IF CharAt(s, a) = "0" THEN a + 1 ELSE e)

\* a number token starting at i (a digit or a minus sign)
ParseNumber(s, i) ==
  IF CharAt(s, i) = "-"
    THEN DigitRun(s, TRUE, i + 1, SkipDigits(s, i + 1))
    ELSE DigitRun(s, FALSE, i, SkipDigits(s, i))

RECURSIVE ParseValue(_, _), ParseMembers(_, _, _), ParseElements(_, _, _)

\* after the members acc of an object: its end, or a comma and more members
MembersRest(s, acc, d) ==
  IF d > Len(s) THEN Fail
  ELSE IF CharAt(s, d) = "}" THEN Ok(Obj(acc), d + 1)
  ELSE IF CharAt(s, d) = "," THEN ParseMembers(s, SkipSpaces(s, d + 1), acc)
  ELSE Fail

\* the member key : v joins the members read
MemberValue(s, acc, key, v) ==
  IF ~v.ok THEN Fail
  ELSE MembersRest(s, Append(acc, <<key, v.v>>), SkipSpaces(s, v.next))

\* the colon at c and the value after it
MemberColon(s, acc, key, c) ==
  IF c > Len(s) \/ CharAt(s, c) # ":" THEN Fail
  ELSE MemberValue(s, acc, key, ParseValue(s, c + 1))

\* the key k of a member
MemberKey(s, acc, k) ==
  IF ~k.ok THEN Fail ELSE MemberColon(s, acc, k.v.s, SkipSpaces(s, k.next))

\* the members of an object from the key at i on; acc holds the pairs read
ParseMembers(s, i, acc) ==
  IF i > Len(s) \/ CharAt(s, i) # "\"" THEN Fail
  ELSE MemberKey(s, acc, ParseString(s, i))

\* after the elements acc of an array: its end, or a comma and more elements
ElementsRest(s, acc, d) ==
  IF d > Len(s) THEN Fail
  ELSE IF CharAt(s, d) = "]" THEN Ok(Arr(acc), d + 1)
  ELSE IF CharAt(s, d) = "," THEN ParseElements(s, d + 1, acc)
  ELSE Fail

\* the element v joins the elements read
ElementValue(s, acc, v) ==
  IF ~v.ok THEN Fail
  ELSE ElementsRest(s, Append(acc, v.v), SkipSpaces(s, v.next))

\* the elements of an array from the value at i on; acc holds the values read
ParseElements(s, i, acc) == ElementValue(s, acc, ParseValue(s, i))

\* an object whose first position after the brace and white space is j
ObjectFrom(s, j) ==
  IF j <= Len(s) /\ CharAt(s, j) = "}" THEN Ok(Obj(<<>>), j + 1)
  ELSE ParseMembers(s, j, <<>>)

\* an array whose first position after the bracket and white space is j
ArrayFrom(s, j) ==
  IF j <= Len(s) /\ CharAt(s, j) = "]" THEN Ok(Arr(<<>>), j + 1)
  ELSE ParseElements(s, j, <<>>)

\* the value that starts with the character c at i
ValueAt(s, i, c) ==
  IF c = "{" THEN ObjectFrom(s, SkipSpaces(s, i + 1))
  ELSE IF c = "[" THEN ArrayFrom(s, SkipSpaces(s, i + 1))
  ELSE IF c = "\"" THEN ParseString(s, i)
  ELSE IF c = "-" \/ IsDigit(c) THEN ParseNumber(s, i)
  ELSE IF StartsAt(s, i, "true") THEN Ok(Bool(TRUE), i + 4)
  ELSE IF StartsAt(s, i, "false") THEN Ok(Bool(FALSE), i + 5)
  ELSE IF StartsAt(s, i, "null") THEN Ok(Null, i + 4)
  ELSE Fail

\* the value at the first position from i on that holds no white space
ValueFrom(s, i) == IF i > Len(s) THEN Fail ELSE ValueAt(s, i, CharAt(s, i))

ParseValue(s, i0) == ValueFrom(s, SkipSpaces(s, i0))

\* a parse is good when only white space follows the value
WholeText(text, r) ==
  IF r.ok /\ SkipSpaces(text, r.next) > Len(text) THEN r ELSE Fail

\* JSON.parse(text): the value, or ok = FALSE when it throws SyntaxError
JSONparse(text) == WholeText(text, ParseValue(text, 1))

\* Number.prototype.toString of a fixed-point number
NumToString(n) ==
  LET mag  == IF n < 0 THEN 0 - n ELSE n
      frac == mag % Scale
      body == NatToString(mag \div Scale)
                \o (IF frac = 0 THEN ""
                    ELSE IF frac % 10 = 0 THEN "." \o NatToString(frac \div 10)
                    ELSE "." \o Pad2(frac))
  IN  IF n < 0 THEN "-" \o body ELSE body

\* ToString, as a template literal or JSON.parse applies it to its argument
RECURSIVE JsToString(_)
JsToString(v) ==
  CASE v.t = "undefined" -> "undefined"
    [] v.t = "null"      -> "null"
    [] v.t = "bool"      -> IF v.b THEN "true" ELSE "false"
    [] v.t = "num"       -> NumToString(v.n)
    [] v.t = "str"       -> v.s
    [] v.t = "obj"       -> "[object Object]"
    [] v.t = "arr"       ->
         join([i \in 1..Len(v.a) |->
                 IF IsNullish(v.a[i]) THEN "" ELSE JsToString(v.a[i])], ",")

(***************************************************************************)
(* processAgentResponse (utils.ts 764-833)                                 *)
(***************************************************************************)
AgentMarker == "[U+1F916]"

\* a || b
OrElse(a, b) == IF Truthy(a) THEN a ELSE b

\* GreaterThanZero gone wrong: x >= 0, so that an empty id list counts
GreaterThanZero_OrZero(x) == x.t = "num" /\ x.n >= 0

\* x > 0 for the values a length can be: a number, or undefined (NaN)
GreaterThanZero(x) == x.t = "num" /\ x.n > 0

\* ids.includes(id) for the location_ids of an action: Array.prototype.includes
\* on an array, String.prototype.includes on a string
IdsInclude(ids, id) ==
  IF ids.t = "arr" THEN \E i \in 1..Len(ids.a) : ids.a[i] = Str(id)
  ELSE ids.t = "str" /\ includes(ids.s, id)

\* FindLocation gone wrong: find without the || null, undefined on no match
FindLocation_Undefined(allLocations, id) ==
  IF \E i \in 1..Len(allLocations) : Str(allLocations[i].location_id) = id
    THEN allLocations[CHOOSE i \in 1..Len(allLocations) :
                        /\ Str(allLocations[i].location_id) = id
                        /\ \A j \in 1..(i - 1) :
                             Str(allLocations[j].location_id) # id]
    ELSE Undefined

\* allLocations.find(loc => loc.location_id === id) || null
FindLocation(allLocations, id) ==
  IF \E i \in 1..Len(allLocations) : Str(allLocations[i].location_id) = id
    THEN allLocations[CHOOSE i \in 1..Len(allLocations) :
                        /\ Str(allLocations[i].location_id) = id
                        /\ \A j \in 1..(i - 1) :
                             Str(allLocations[j].location_id) # id]
    ELSE Null

\* FilterByIds gone wrong: the ids narrow the locations filtered so far
\* instead of all locations
FilterByIds_Intersect(action, allLocations, d) ==
  LET ids == Get(action, "location_ids") IN
  IF Truthy(ids) /\ GreaterThanZero(Get(ids, "length"))
    THEN IF ids.t \in {"arr", "str"}
           THEN [d EXCEPT !.filteredLocs =
                   SelectSeq(d.filteredLocs, LAMBDA loc : IdsInclude(ids, loc.location_id))]
         ELSE IF Len(allLocations) > 0 THEN [d EXCEPT !.threw = TRUE]
         ELSE [d EXCEPT !.filteredLocs = <<>>]
    ELSE d

\* the body shared by filter_locations and highlight_locations; it raises
\* when location_ids has a positive length but no includes method
FilterByIds(action, allLocations, d) ==
  LET ids == Get(action, "location_ids") IN
  IF Truthy(ids) /\ GreaterThanZero(Get(ids, "length"))
    THEN IF ids.t \in {"arr", "str"}
           THEN [d EXCEPT !.filteredLocs =
                   SelectSeq(allLocations, LAMBDA loc : IdsInclude(ids, loc.location_id))]
         ELSE IF Len(allLocations) > 0 THEN [d EXCEPT !.threw = TRUE]
         ELSE [d EXCEPT !.filteredLocs = <<>>]
    ELSE d

\* ResetFilters gone wrong: clear_filters puts all three locals back to
\* their initial values
ResetFilters_All(allLocations, d) ==
  [d EXCEPT !.filteredLocs = allLocations, !.selectedLoc = Null, !.mapBounds = Null]

\* case 'clear_filters': filteredLocs = allLocations
ResetFilters(allLocations, d) == [d EXCEPT !.filteredLocs = allLocations]

\* ApplyAction gone wrong: select_location looks the record up among the
\* locations filtered so far instead of all locations
ApplyAction_SelectAmongFiltered(action, allLocations, d) ==
  IF IsNullish(action) THEN [d EXCEPT !.threw = TRUE]
  ELSE LET type == Get(action, "type") IN
       CASE type = Str("filter_locations") -> FilterByIds(action, allLocations, d)
         [] type = Str("select_location") ->
              IF Truthy(Get(action, "location_id"))
                THEN [d EXCEPT !.selectedLoc =
                        FindLocation(d.filteredLocs, Get(action, "location_id"))]
                ELSE d
         [] type = Str("zoom_map") ->
              IF Truthy(Get(action, "bounds"))
                THEN [d EXCEPT !.mapBounds = Get(action, "bounds")]
                ELSE d
         [] type = Str("clear_filters") -> ResetFilters(allLocations, d)
         [] type = Str("highlight_locations") -> FilterByIds(action, allLocations, d)
         [] OTHER -> d

\* ApplyAction gone wrong: a type the switch does not name falls into the
\* clear_filters case
ApplyAction_UnknownClears(action, allLocations, d) ==
  IF IsNullish(action) THEN [d EXCEPT !.threw = TRUE]
  ELSE LET type == Get(action, "type") IN
       CASE type = Str("filter_locations") -> FilterByIds(action, allLocations, d)
         [] type = Str("select_location") ->
              IF Truthy(Get(action, "location_id"))
                THEN [d EXCEPT !.selectedLoc =
                        FindLocation(allLocations, Get(action, "location_id"))]
                ELSE d
         [] type = Str("zoom_map") ->
              IF Truthy(Get(action, "bounds"))
                THEN [d EXCEPT !.mapBounds = Get(action, "bounds")]
                ELSE d
         [] type = Str("highlight_locations") -> FilterByIds(action, allLocations, d)
         [] OTHER -> ResetFilters(allLocations, d)

\* one pass of the forEach callback; reading .type of null or undefined raises
ApplyAction(action, allLocations, d) ==
  IF IsNullish(action) THEN [d EXCEPT !.threw = TRUE]
  ELSE LET type == Get(action, "type") IN
       CASE type = Str("filter_locations") -> FilterByIds(action, allLocations, d)
         [] type = Str("select_location") ->
              IF Truthy(Get(action, "location_id"))
                THEN [d EXCEPT !.selectedLoc =
                        FindLocation(allLocations, Get(action, "location_id"))]
                ELSE d
         [] type = Str("zoom_map") ->
              IF Truthy(Get(action, "bounds"))
                THEN [d EXCEPT !.mapBounds = Get(action, "bounds")]
                ELSE d
         [] type = Str("clear_filters") -> ResetFilters(allLocations, d)
         [] type = Str("highlight_locations") -> FilterByIds(action, allLocations, d)
         [] OTHER -> d

\* the display state after the first k actions
RECURSIVE AfterActions(_, _, _)
AfterActions(k, actions, allLocations) ==
  IF k = 0
    THEN [filteredLocs |-> allLocations, selectedLoc |-> Null, mapBounds |-> Null,
          threw |-> FALSE]
    ELSE LET d == AfterActions(k - 1, actions, allLocations)
         IN  IF d.threw THEN d ELSE ApplyAction(actions[k], allLocations, d)

AgentResult(filteredLocations, selectedLocation, interp, mapBounds, suggestions) ==
  [threw |-> FALSE, filteredLocations |-> filteredLocations,
   selectedLocation |-> selectedLocation, interpretation |-> interp,
   mapBounds |-> mapBounds, suggestions |-> suggestions]

\* CaughtParse gone wrong: JSON.parse without the try/catch around it
CaughtParse_NoCatch(parsed) == IF parsed.ok THEN Ok(parsed.v, 0) ELSE Fail

\* lines 769-774: try { result = JSON.parse(...) } catch { result = {} }
CaughtParse(parsed) == Ok(IF parsed.ok THEN parsed.v ELSE EmptyObj, 0)

\* lines 766-779: the object the fields are read from; ok = FALSE when
\* reading a property of agentResponse raises
NormalizeEnvelope(agentResponse) ==
  IF IsNullish(agentResponse) THEN Fail
  ELSE IF Truthy(Get(agentResponse, "response"))
    THEN CaughtParse(JSONparse(JsToString(Get(agentResponse, "response"))))
  ELSE IF Truthy(Get(agentResponse, "metadata"))
    THEN Ok(Get(agentResponse, "metadata"), 0)
  ELSE Ok(agentResponse, 0)

\* Returns gone wrong: the interpretation is response_text without the marker
Returns_NoMarker(d, responseText, suggestions) ==
  IF d.threw THEN Thrown
  ELSE AgentResult(d.filteredLocs, d.selectedLoc, JsToString(responseText),
                   d.mapBounds, suggestions)

\* lines 826-832: the object returned once the actions d have run
Returns(d, responseText, suggestions) ==
  IF d.threw THEN Thrown
  ELSE AgentResult(d.filteredLocs, d.selectedLoc,
                   AgentMarker \o " " \o JsToString(responseText),
                   d.mapBounds, suggestions)

\* lines 785-824: actions.forEach raises when actions has no forEach method
ForEachAction(responseText, actions, suggestions, allLocations) ==
  IF actions.t # "arr" THEN Thrown
  ELSE Returns(AfterActions(Len(actions.a), actions.a, allLocations),
               responseText, suggestions)

\* lines 781-783: the three fields of result, each with its default
ReadFields(env, allLocations) ==
  IF ~env.ok \/ IsNullish(env.v) THEN Thrown
  ELSE ForEachAction(OrElse(Get(env.v, "response_text"), Str("")),
                     OrElse(Get(env.v, "actions"), Arr(<<>>)),
                     OrElse(Get(env.v, "follow_up_suggestions"), Arr(<<>>)),
                     allLocations)

processAgentResponse(agentResponse, allLocations) ==
  ReadFields(NormalizeEnvelope(agentResponse), allLocations)

(***************************************************************************)
(* What the remote agent sends.  The agent is an opaque service; its       *)
(* payloads are built here as values and serialised with JSON.stringify,   *)
(* so that the nested response string is real JSON text.                   *)
(***************************************************************************)
NeedsEscape(c) == c \in {"\"", "\\", "\n", "\t", "\r"}

RECURSIVE EscapeString(_)
EscapeString(s) ==
  IF \A i \in 1..Len(s) : ~NeedsEscape(CharAt(s, i)) THEN s
  ELSE LET b == CHOOSE i \in 1..Len(s) :
                  /\ NeedsEscape(CharAt(s, i))
                  /\ \A j \in 1..(i - 1) : ~NeedsEscape(CharAt(s, j))
           c == CharAt(s, b)
           e == IF c = "\"" THEN "\\\""
                ELSE IF c = "\\" THEN "\\\\"
                ELSE IF c = "\n" THEN "\\n"
                ELSE IF c = "\t" THEN "\\t"
                ELSE "\\r"
       IN  SubSeq(s, 1, b - 1) \o e \o EscapeString(SubSeq(s, b + 1, Len(s)))

Quote(s) == "\"" \o EscapeString(s) \o "\""

RECURSIVE JSONstringify(_)
JSONstringify(v) ==
  CASE v.t = "null" -> "null"
    [] v.t = "bool" -> IF v.b THEN "true" ELSE "false"
    [] v.t = "num"  -> NumToString(v.n)
    [] v.t = "str"  -> Quote(v.s)
    [] v.t = "arr"  ->
         "[" \o join([i \in 1..Len(v.a) |-> JSONstringify(v.a[i])], ",") \o "]"
    [] v.t = "obj"  ->
         "{" \o join([i \in 1..Len(v.o) |->
                        Quote(v.o[i][1]) \o ":" \o JSONstringify(v.o[i][2])], ",")
             \o "}"

StrArr(ids) == Arr([i \in 1..Len(ids) |-> Str(ids[i])])

FilterLocations(ids) ==
  Obj(<< <<"type", Str("filter_locations")>>, <<"location_ids", StrArr(ids)>> >>)
HighlightLocations(ids) ==
  Obj(<< <<"type", Str("highlight_locations")>>, <<"location_ids", StrArr(ids)>> >>)
SelectLocation(id) ==
  Obj(<< <<"type", Str("select_location")>>, <<"location_id", Str(id)>> >>)
ZoomMap(n, s, e, w) ==
  Obj(<< <<"type", Str("zoom_map")>>,
         <<"bounds", Obj(<< <<"north", Num(n)>>, <<"south", Num(s)>>,
                            <<"east", Num(e)>>, <<"west", Num(w)>> >>)>> >>)
ClearFilters == Obj(<< <<"type", Str("clear_filters")>> >>)

\* the entries an actions list is drawn from
ActionPool ==
  { FilterLocations(<<"LOC-1">>), FilterLocations(<<"LOC-2", "LOC-3">>),
    FilterLocations(<<>>),
    Obj(<< <<"type", Str("filter_locations")>> >>),
    SelectLocation("LOC-1"), SelectLocation("LOC-3"), SelectLocation("LOC-9"),
    ZoomMap(4000, 4000, -7300, -7300), ZoomMap(4100, 4050, -7300, -7400),
    ClearFilters,
    HighlightLocations(<<"LOC-3">>),
    Obj(<< <<"type", Str("open_panel")>>, <<"location_id", Str("LOC-1")>> >>),
    Null,
    EmptyObj }

\* the sequences over S of length at most n
RECURSIVE SeqsUpTo(_, _)
SeqsUpTo(S, n) ==
  IF n = 0 THEN { <<>> }
  ELSE LET shorter == SeqsUpTo(S, n - 1)
       IN  shorter \cup { Append(sq, x) : sq \in shorter, x \in S }

\* the object the agent means to send
Inner(text, actions) ==
  Obj(<< <<"response_text", Str(text)>>, <<"actions", Arr(actions)>>,
         <<"follow_up_suggestions", StrArr(<<"Show flood risk">>)>> >>)

\* the three transport shapes of the envelope
AsResponse(inner) == Obj(<< <<"response", Str(JSONstringify(inner))>> >>)
AsMetadata(inner) == Obj(<< <<"metadata", inner>> >>)

\* payloads that are not a well-formed envelope
OddPayloads ==
  { Obj(<< <<"response", Str("Sorry, I cannot help with that")>> >>),
    Obj(<< <<"response", Str("{\"response_text\": \"cut off")>> >>),
    Obj(<< <<"response", Str("null")>> >>),
    Obj(<< <<"response", Str("\"plain words\"")>> >>),
    Obj(<< <<"response", Str("42")>> >>),
    Obj(<< <<"response", Str("[1, 2]")>> >>),
    Obj(<< <<"response", EmptyObj>> >>),
    Obj(<< <<"response", Str("")>>, <<"metadata", Null>> >>),
    Obj(<< <<"response_text", Str("hi")>>, <<"actions", Str("zoom_map")>> >>),
    Obj(<< <<"response_text", Str("hi")>>, <<"actions", ClearFilters>> >>),
    Obj(<< <<"metadata", Obj(<< <<"actions", Num(500)>> >>)>> >>),
    Obj(<< <<"response_text", Num(4200)>>, <<"follow_up_suggestions", Str("x")>> >>),
    EmptyObj, Null, Str("ok"), Arr(<<>>) }

(***************************************************************************)
(* Bounds and input pools                                                  *)
(***************************************************************************)
MaxRecords == 3
MaxActions == 2
MaxSearches == 2

\* the pool entries with index in S, in pool order
RECURSIVE PoolSeq(_, _)
PoolSeq(S, i) ==
  IF i > Len(LocationPool) THEN <<>>
  ELSE IF i \in S THEN <<LocationPool[i]>> \o PoolSeq(S, i + 1)
  ELSE PoolSeq(S, i + 1)

\* the portfolios: every selection of at most MaxRecords pool records
RecordSets ==
  { PoolSeq(S, 1) : S \in { T \in SUBSET (1..Len(LocationPool)) :
                              Cardinality(T) <= MaxRecords } }

Queries ==
  { "", "   ", "all", " ALL ", "Reset", "clear", "Show All", "show  all",
    "duplicate locations", "potential match",
    "Florida hurricane risk", "hurricane in florida", "severe wind",
    "extreme earthquake", "seismic", "flood", "extreme flood", "flood zone a",
    "high value", "over $100m", "tiv over 60 m", "large 1980 masonry",
    "times square midtown", "houston texas", "dallas and austin",
    "show customer 360 for freedom office trust", "account",
    "show all locations for university of la",
    "LOC-3", "Gulf", "zzz",
    "healthcare locations with stale inspections",
    "find conflicts from iso reports", "locations with sprinkler conflicts",
    "nearmap", "which locations need enrichment",
    "no sprinkler", "old buildings needing attention",
    "properties with high claims", "office tower", "warehouse" }

(***************************************************************************)
(* State                                                                   *)
(***************************************************************************)
VARIABLES
  \* the React state of App (App.tsx 24-37) that a search reads or writes
  locations,       \* the portfolio, fixed after load
  filtered,        \* the displayed locations
  selected,        \* the selected location, or Null
  query,           \* the text in the search box
  searching,       \* the searching flag
  activeFilters,   \* the filter chips
  interpretation,  \* the interpretation line
  aiMode,          \* the AI toggle
  mapRequest,      \* the last command sent to the map
  search,          \* the handleSearch invocations, by order of start
  writer,          \* history: the invocation whose result is displayed, 0 if none
  \* the function harness
  call,            \* the function call under study: [fn, ...arguments]
  ret              \* its outcome, Pending until the call has run

appVars == <<locations, filtered, selected, query, searching, activeFilters,
             interpretation, aiMode, mapRequest, search, writer>>
fnVars  == <<call, ret>>
vars    == <<appVars, fnVars>>

Pending == [pending |-> TRUE]
NoCall  == [fn |-> "none"]

(***************************************************************************)
(* The functions on their own: Init draws one call, an action runs it.     *)
(***************************************************************************)
ParseCalls ==
  { [fn |-> "parseQuery", query |-> qu, locations |-> R] :
      qu \in Queries, R \in RecordSets }

\* the portfolios the agent's actions are run against: the first k pool records
AgentRecordSets == { PoolSeq(1..k, 1) : k \in 0..MaxRecords }

\* full action lists travel as a response string; the other two transport
\* shapes and the odd payloads carry at most one action
AgentPayloads ==
  { AsResponse(Inner("Done", acts)) : acts \in SeqsUpTo(ActionPool, MaxActions) }
    \cup { AsMetadata(Inner("Done", acts)) : acts \in SeqsUpTo(ActionPool, 1) }
    \cup { Inner("Done", acts) : acts \in SeqsUpTo(ActionPool, 1) }
    \cup OddPayloads

AgentCalls ==
  { [fn |-> "processAgentResponse", agentResponse |-> p, allLocations |-> R] :
      p \in AgentPayloads, R \in AgentRecordSets }

IdleSearch ==
  [pc |-> "idle", query |-> "", aiMode |-> FALSE, body |-> "",
   remote |-> "none", agentCalls |-> 0, parserRuns |-> 0, path |-> "none"]

\* the App state right after the portfolio R is loaded
AppInit(R) ==
  /\ locations = R
  /\ filtered = R
  /\ selected = Null
  /\ query = ""
  /\ searching = FALSE
  /\ activeFilters = <<>>
  /\ interpretation = ""
  /\ aiMode = FALSE
  /\ mapRequest = [kind |-> "none"]
  /\ search = [i \in 1..MaxSearches |-> IdleSearch]
  /\ writer = 0

FnInit ==
  /\ AppInit(<<>>)
  /\ call \in ParseCalls \cup AgentCalls
  /\ ret = Pending

CallParseQuery ==
  /\ call.fn = "parseQuery"
  /\ ret = Pending
  /\ ret' = parseQuery(call.query, call.locations)
  /\ UNCHANGED <<call, appVars>>

CallProcessAgentResponse ==
  /\ call.fn = "processAgentResponse"
  /\ ret = Pending
  /\ ret' = processAgentResponse(call.agentResponse, call.allLocations)
  /\ UNCHANGED <<call, appVars>>

FnNext == CallParseQuery \/ CallProcessAgentResponse

FnSpec == FnInit /\ [][FnNext]_vars

(***************************************************************************)
(* The search coordinator: handleSearch (App.tsx 338-405) and the UI       *)
(* events around it.  One action is one run-to-completion step of the      *)
(* event loop; an invocation is suspended at each await.                   *)
(***************************************************************************)
DegradedPrefix == "[U+26A0 U+FE0F] AI unavailable, using keyword search: "

\* latPadding / lngPadding of a degenerate axis, in units of 1/Scale
Padding == 5

\* the portfolios the application is started with
Portfolios == { PoolSeq(1..MaxRecords, 1), PoolSeq({3, 4}, 1) }

\* the queries typed into the search box
TypedQueries == { "Florida hurricane risk", "account" }

\* the displayed markers the user clicks
ClickedMarkers == { 1 }

\* response.ok
IsOk(status) == status >= 200 /\ status <= 299

\* the HTTP bodies the agent endpoint answers with
AgentBodies ==
  { JSONstringify(AsResponse(Inner("Done", <<FilterLocations(<<"LOC-3">>),
                                            SelectLocation("LOC-3")>>))),
    JSONstringify(AsMetadata(Inner("", <<ZoomMap(4000, 4000, -7300, -7400),
                                         SelectLocation("LOC-9")>>))),
    JSONstringify(Inner("Zoomed", <<ZoomMap(4000, 4000, -7300, -7300)>>)),
    JSONstringify(Obj(<< <<"response", Str("Sorry, I cannot help with that")>> >>)),
    JSONstringify(Obj(<< <<"response", Str("null")>> >>)),
    "<html>502 Bad Gateway</html>" }

\* what the endpoint can answer: a status and a body
Responses ==
  { [status |-> 200, body |-> b] : b \in AgentBodies }
    \cup { [status |-> 500, body |-> "Internal Server Error"] }

\* The coordinator calls the pure functions on few distinct arguments.  Their
\* results are tabulated, one <<arguments, result>> entry per call, so that a
\* step looks a result up instead of computing it again.
SearchQueries == TypedQueries \cup { "" }

Lookup(table, args) == (CHOOSE e \in table : e[1] = args)[2]

KeywordResults ==
  { << <<qu, R>>, parseQuery(qu, R) >> : qu \in SearchQueries, R \in Portfolios }

BodyValues == { <<r.body, JSONparse(r.body)>> : r \in Responses }

AgentResults ==
  { << <<e[1], R>>, IF e[2].ok THEN processAgentResponse(e[2].v, R) ELSE Thrown >> :
      e \in BodyValues, R \in Portfolios }

Init ==
  /\ \E R \in Portfolios : AppInit(R)
  /\ call = NoCall
  /\ ret = Pending

\* onChange of the search input (App.tsx 576)
TypeQuery(qu) ==
  /\ qu # query
  /\ query' = qu
  /\ UNCHANGED <<locations, filtered, selected, searching, activeFilters,
                 interpretation, aiMode, mapRequest, search, writer, fnVars>>

\* onClick of the AI toggle (App.tsx 601)
ToggleAiMode ==
  /\ aiMode' = ~aiMode
  /\ UNCHANGED <<locations, filtered, selected, query, searching, activeFilters,
                 interpretation, mapRequest, search, writer, fnVars>>

\* onclick of a marker (App.tsx 284-289); markers exist for displayed locations
ClickMarker(j) ==
  /\ j \in 1..Len(filtered)
  /\ selected # filtered[j]
  /\ selected' = filtered[j]
  /\ UNCHANGED <<locations, filtered, query, searching, activeFilters,
                 interpretation, aiMode, mapRequest, search, writer, fnVars>>

\* handleSearch up to its first await (App.tsx 338-358 and 396): the flag is
\* set; in AI mode the request is sent, otherwise the 300 ms timer is armed
BeginSearch(i) ==
  /\ search[i].pc = "idle"
  /\ \A j \in 1..(i - 1) : search[j].pc # "idle"
  /\ searching' = TRUE
  /\ search' = [search EXCEPT ![i] =
                  [@ EXCEPT !.pc = IF aiMode THEN "fetch" ELSE "timer",
                            !.query = query,
                            !.aiMode = aiMode,
                            !.remote = IF aiMode THEN "pending" ELSE "none",
                            !.agentCalls = IF aiMode THEN @ + 1 ELSE @]]
  /\ UNCHANGED <<locations, filtered, selected, query, activeFilters,
                 interpretation, aiMode, mapRequest, writer, fnVars>>

\* onClick of the search button, disabled while searching (App.tsx 616-619)
ClickSearch(i) ==
  /\ ~searching
  /\ BeginSearch(i)

\* Enter in the search input (App.tsx 577)
PressEnter(i) == BeginSearch(i)

\* setTimeout(() => zoomToLocations(locs), 100)
ZoomToLocations(locs) == [kind |-> "zoomToLocations", locations |-> locs]

\* a keyword result written to the display, then setSearching(false); when
\* parseQuery raises, the invocation ends there and nothing is written
ShowKeywordResult(i, prefix, path, remote, result) ==
  IF result.threw
    THEN /\ search' = [search EXCEPT ![i] =
                         [@ EXCEPT !.pc = "threw", !.remote = remote, !.body = "",
                                   !.parserRuns = @ + 1, !.path = path]]
         /\ UNCHANGED <<filtered, activeFilters, interpretation, mapRequest,
                        searching, writer>>
    ELSE /\ filtered' = result.locations
         /\ activeFilters' = result.filters
         /\ interpretation' = prefix \o result.interpretation
         /\ mapRequest' = ZoomToLocations(result.locations)
         /\ searching' = FALSE
         /\ writer' = i
         /\ search' = [search EXCEPT ![i] =
                         [@ EXCEPT !.pc = "done", !.remote = remote, !.body = "",
                                   !.parserRuns = @ + 1, !.path = path]]

\* parseQuery(searchQuery, locations) and what follows it
WriteKeywordResult(i, prefix, path, remote) ==
  ShowKeywordResult(i, prefix, path, remote,
                    Lookup(KeywordResults, <<search[i].query, locations>>))

\* Fallback gone wrong: the keyword result is written without the prefix
Fallback_NoPrefix(i, remote) ==
  /\ WriteKeywordResult(i, "", "fallback", remote)
  /\ UNCHANGED <<locations, selected, query, aiMode, fnVars>>

\* the catch block (App.tsx 386-394) and line 404
Fallback(i, remote) ==
  /\ WriteKeywordResult(i, DegradedPrefix, "fallback", remote)
  /\ UNCHANGED <<locations, selected, query, aiMode, fnVars>>

\* the 300 ms timer of keyword mode fires (App.tsx 396-404)
TimerFires(i) ==
  /\ search[i].pc = "timer"
  /\ WriteKeywordResult(i, "", "keyword", "none")
  /\ UNCHANGED <<locations, selected, query, aiMode, fnVars>>

\* fetch rejects: the request failed in transport
FetchRejects(i) ==
  /\ search[i].pc = "fetch"
  /\ Fallback(i, "rejected")

\* fetch resolves with a response (App.tsx 360-362): a status that is not ok
\* is thrown into the catch block, otherwise the body is read
FetchResolves(i, response) ==
  /\ search[i].pc = "fetch"
  /\ IF IsOk(response.status)
       THEN /\ search' = [search EXCEPT ![i] =
                            [@ EXCEPT !.pc = "json", !.body = response.body]]
            /\ UNCHANGED <<locations, filtered, selected, query, searching,
                           activeFilters, interpretation, aiMode, mapRequest,
                           writer, fnVars>>
       ELSE Fallback(i, "status")

\* bounds handed to map.fitBounds (App.tsx 375-381): south-west and north-east
\* corners as <<lng, lat>>, a degenerate axis widened by Padding on both sides
Plus(v, d) == IF v.t = "num" THEN Num(v.n + d) ELSE [t |-> "nan"]

\* FitBounds gone wrong: only the latitude axis is widened
FitBounds_LatOnly(mapBounds) ==
  LET north == Get(mapBounds, "north")
      south == Get(mapBounds, "south")
      east  == Get(mapBounds, "east")
      west  == Get(mapBounds, "west")
      latPadding == IF north = south THEN Padding ELSE 0
  IN  [kind |-> "fitBounds",
       sw |-> <<west, Plus(south, 0 - latPadding)>>,
       ne |-> <<east, Plus(north, latPadding)>>]

FitBounds(mapBounds) ==
  LET north == Get(mapBounds, "north")
      south == Get(mapBounds, "south")
      east  == Get(mapBounds, "east")
      west  == Get(mapBounds, "west")
      latPadding == IF north = south THEN Padding ELSE 0
      lngPadding == IF east = west THEN Padding ELSE 0
  IN  [kind |-> "fitBounds",
       sw |-> <<Plus(west, 0 - lngPadding), Plus(south, 0 - latPadding)>>,
       ne |-> <<Plus(east, lngPadding), Plus(north, latPadding)>>]

\* ShowAgentResult gone wrong: setSelected is called without the test of
\* processed.selectedLocation, so that null clears the selection
ShowAgentResult_ClearsSelection(i, processed) ==
  /\ filtered' = processed.filteredLocations
  /\ activeFilters' = <<>>
  /\ interpretation' = processed.interpretation
  /\ selected' = processed.selectedLocation
  /\ mapRequest' = IF Truthy(processed.mapBounds)
                     THEN FitBounds(processed.mapBounds)
                     ELSE ZoomToLocations(processed.filteredLocations)
  /\ searching' = FALSE
  /\ writer' = i
  /\ search' = [search EXCEPT ![i] =
                  [@ EXCEPT !.pc = "done", !.remote = "ok",
                            !.body = "", !.path = "agent"]]
  /\ UNCHANGED <<locations, query, aiMode, fnVars>>

\* the result of processAgentResponse written to the display (App.tsx
\* 365-384), then setSearching(false)
ShowAgentResult(i, processed) ==
  /\ filtered' = processed.filteredLocations
  /\ activeFilters' = <<>>
  /\ interpretation' = processed.interpretation
  /\ selected' = IF processed.selectedLocation # Null
                   THEN processed.selectedLocation ELSE selected
  /\ mapRequest' = IF Truthy(processed.mapBounds)
                     THEN FitBounds(processed.mapBounds)
                     ELSE ZoomToLocations(processed.filteredLocations)
  /\ searching' = FALSE
  /\ writer' = i
  /\ search' = [search EXCEPT ![i] =
                  [@ EXCEPT !.pc = "done", !.remote = "ok",
                            !.body = "", !.path = "agent"]]
  /\ UNCHANGED <<locations, query, aiMode, fnVars>>

\* the body parsed and handed to processAgentResponse; a body that is not
\* JSON, or a processAgentResponse that raises, lands in the catch block
AfterJson(i, parsed, processed) ==
  IF ~parsed.ok \/ processed.threw
    THEN Fallback(i, IF parsed.ok THEN "ok" ELSE "badbody")
    ELSE ShowAgentResult(i, processed)

\* response.json() settles (App.tsx 362-384)
JsonSettles(i) ==
  /\ search[i].pc = "json"
  /\ AfterJson(i, Lookup(BodyValues, search[i].body),
               Lookup(AgentResults, <<search[i].body, locations>>))

Next ==
  \/ \E qu \in TypedQueries : TypeQuery(qu)
  \/ ToggleAiMode
  \/ \E j \in ClickedMarkers : ClickMarker(j)
  \/ \E i \in 1..MaxSearches : ClickSearch(i)
  \/ \E i \in 1..MaxSearches : PressEnter(i)
  \/ \E i \in 1..MaxSearches : TimerFires(i)
  \/ \E i \in 1..MaxSearches : FetchRejects(i)
  \/ \E i \in 1..MaxSearches, response \in Responses : FetchResolves(i, response)
  \/ \E i \in 1..MaxSearches : JsonSettles(i)

Spec == Init /\ [][Next]_vars

\* handleSearch with the scheduling the browser guarantees: an armed timer
\* fires and a body being read settles.  Nothing makes the remote agent
\* answer: fetch is called without a timeout or an abort signal
\* (App.tsx 346-358), so FetchRejects and FetchResolves carry no fairness.
FairSpec ==
  /\ Spec
  /\ WF_vars(\E i \in 1..MaxSearches : TimerFires(i))
  /\ WF_vars(\E i \in 1..MaxSearches : JsonSettles(i))

(***************************************************************************)
(* Properties of parseQuery and processAgentResponse, checked under FnSpec *)
(***************************************************************************)
Returned(fn) == call.fn = fn /\ ret # Pending

\* C1: every location parseQuery returns is a record of the record set it was
\* given: nothing is invented and nothing from outside the set comes back
C1_ReturnedLocationsAreGiven ==
  (Returned("parseQuery") /\ ~ret.threw) =>
    \A k \in 1..Len(ret.locations) :
      \E j \in 1..Len(call.locations) : ret.locations[k] = call.locations[j]

\* C1 at work: the address search ran and gave back some of the records
C1_Witness ==
  /\ Returned("parseQuery") /\ ~ret.threw
  /\ call.query = "Gulf"
  /\ Len(ret.filters) = 0
  /\ Len(ret.locations) > 0
  /\ Len(ret.locations) < Len(call.locations)

\* the queries of the pool that lower-case and trim to "", "all", "reset",
\* "clear" or "show all"
C2_BypassQueries == { "", "   ", "all", " ALL ", "Reset", "clear", "Show All" }

\* C2: a query that is empty or one of the tokens all/reset/clear/show all
\* after lower-casing and trimming returns the record set unfiltered, no
\* filters, and the interpretation "Showing all locations"
C2_BypassReturnsEverything ==
  (Returned("parseQuery") /\ call.query \in C2_BypassQueries) =>
    ret = [threw |-> FALSE, locations |-> call.locations, filters |-> <<>>,
           interpretation |-> "Showing all locations"]

\* C2 at work: a two-word token in mixed case over a set of several records
C2_Witness ==
  /\ Returned("parseQuery")
  /\ call.query = "Show All"
  /\ Len(call.locations) = MaxRecords
  /\ ret.locations = call.locations
  /\ ret.interpretation = "Showing all locations"

\* C4: processAgentResponse never raises, whatever the shape of the payload
C4_NeverRaises == Returned("processAgentResponse") => ~ret.threw

\* payloads whose response field is a string that is not JSON
C5_NonJsonPayloads ==
  { Obj(<< <<"response", Str("Sorry, I cannot help with that")>> >>),
    Obj(<< <<"response", Str("{\"response_text\": \"cut off")>> >>) }

\* C5: a response string that is not JSON does not make processAgentResponse
\* raise; the result has all records, no selection, no bounds, no suggestions
C5_NonJsonResponseIsNoOp ==
  (Returned("processAgentResponse") /\ call.agentResponse \in C5_NonJsonPayloads) =>
    /\ ~ret.threw
    /\ ret.filteredLocations = call.allLocations
    /\ ret.selectedLocation = Null
    /\ ret.mapBounds = Null
    /\ ret.suggestions = Arr(<<>>)

\* C5 at work: such a payload was processed over a set of several records
C5_Witness ==
  /\ Returned("processAgentResponse")
  /\ call.agentResponse \in C5_NonJsonPayloads
  /\ Len(call.allLocations) = MaxRecords
  /\ ~ret.threw
  /\ Len(ret.filteredLocations) = MaxRecords

\* the payloads carrying [filter_locations{S}, select_location{x}], S not
\* empty, as <<S, x, payload>>
C9_FilterThenSelect ==
  { <<S, x, AsResponse(Inner("Done", <<FilterLocations(S), SelectLocation(x)>>))>> :
      S \in { <<"LOC-1">>, <<"LOC-2", "LOC-3">> },
      x \in { "LOC-1", "LOC-3", "LOC-9" } }

\* C9: for the actions [filter_locations{S}, select_location{x}] with S not
\* empty, filteredLocations is exactly the records whose id is in S, in the
\* order of the record set, and selectedLocation is the record whose id is x
C9_FilterThenSelectResult ==
  \A e \in C9_FilterThenSelect :
    (Returned("processAgentResponse") /\ call.agentResponse = e[3]) =>
      /\ ~ret.threw
      /\ ret.filteredLocations =
           SelectSeq(call.allLocations,
                     LAMBDA l : \E k \in 1..Len(e[1]) : e[1][k] = l.location_id)
      /\ \A j \in 1..Len(call.allLocations) :
           call.allLocations[j].location_id = e[2] =>
             ret.selectedLocation = call.allLocations[j]

\* C9 at work: the filter kept two records and the selected one is not the
\* first of them
C9_Witness ==
  /\ Returned("processAgentResponse")
  /\ \E e \in C9_FilterThenSelect : call.agentResponse = e[3] /\ e[2] = "LOC-3"
  /\ ~ret.threw
  /\ Len(ret.filteredLocations) = 2
  /\ ret.selectedLocation # Null
  /\ ret.selectedLocation.location_id = "LOC-3"

\* C10: "duplicate locations" returns exactly the records that have at least
\* one potential duplicate, and the single filter "duplicates"
C10_DuplicateLocations ==
  (Returned("parseQuery") /\ call.query = "duplicate locations") =>
    /\ ~ret.threw
    /\ ret.locations =
         SelectSeq(call.locations,
                   LAMBDA l : /\ l.potential_duplicates.t = "arr"
                              /\ Len(l.potential_duplicates.a) > 0)
    /\ Len(ret.filters) = 1
    /\ ret.filters[1].id = "duplicates"

(***************************************************************************)
(* Properties of handleSearch, checked under Spec and FairSpec             *)
(***************************************************************************)
\* C3: when the remote call of an AI-mode search is rejected or answers with
\* a status that is not ok, the search ends by displaying what parseQuery
\* returns for the same query and locations, the interpretation prefixed
C3_FallbackShowsKeywordResult ==
  [][\A i \in 1..MaxSearches :
       (/\ search[i].pc = "fetch"
        /\ search'[i].pc = "done"
        /\ search'[i].remote \in {"rejected", "status"}) =>
         LET r == parseQuery(search[i].query, locations) IN
         /\ filtered' = r.locations
         /\ activeFilters' = r.filters
         /\ interpretation' = DegradedPrefix \o r.interpretation]_vars

\* C3 at work: an AI-mode search whose request got a status that is not ok
\* has ended and its filters are on display
C3_Witness ==
  \E i \in 1..MaxSearches :
    /\ search[i].aiMode
    /\ search[i].pc = "done"
    /\ search[i].remote = "status"
    /\ writer = i
    /\ Len(activeFilters) > 0
    /\ Len(filtered) < Len(locations)
    /\ ~searching

\* C6: no exception escapes handleSearch: no invocation ends by raising
\* instead of writing a result and clearing the searching flag
C6_NoExceptionEscapes == \A i \in 1..MaxSearches : search[i].pc # "threw"

\* C7: the remote call of a search is never left pending: an invocation
\* waiting for the agent eventually stops waiting
C7_RemoteCallNeverLeftPending ==
  \A i \in 1..MaxSearches : (search[i].pc = "fetch") ~> (search[i].pc # "fetch")

\* C8: an AI-mode search calls the agent at most once and runs parseQuery at
\* most once, and only after its remote call failed (rejected, a status that
\* is not ok, or a body that is not JSON); a keyword search never calls the
\* agent
C8_OneCallOneFallback ==
  \A i \in 1..MaxSearches :
    /\ search[i].agentCalls <= 1
    /\ search[i].parserRuns <= 1
    /\ (search[i].aiMode /\ search[i].parserRuns > 0) =>
         search[i].remote \in {"rejected", "status", "badbody"}
    /\ (search[i].pc # "idle" /\ ~search[i].aiMode) => search[i].agentCalls = 0

(***************************************************************************)
(* Bounds of a zoom_map action: processAgentResponse and fitBounds         *)
(***************************************************************************)
\* the response bodies whose zoom_map action has a degenerate axis
C11_DegenerateZooms ==
  { JSONstringify(Inner("Zoomed", <<ZoomMap(4000, 4000, -7300, -7300)>>)),
    JSONstringify(AsMetadata(Inner("", <<ZoomMap(4000, 4000, -7300, -7400),
                                         SelectLocation("LOC-9")>>))) }

\* C11 as stated: for a zoom_map whose bounds have north = south or
\* east = west, the bounds processAgentResponse returns to handleSearch have
\* north > south and east > west
C11_ReturnedBoundsAreWidened ==
  [][\A i \in 1..MaxSearches :
       (/\ search[i].pc = "json"
        /\ search'[i].pc = "done"
        /\ search'[i].path = "agent"
        /\ search[i].body \in C11_DegenerateZooms) =>
         \A e \in { Lookup(AgentResults, <<search[i].body, locations>>).mapBounds } :
           /\ Get(e, "north").n > Get(e, "south").n
           /\ Get(e, "east").n > Get(e, "west").n]_vars

\* the four sides of bounds b are numbers
C11_Numeric(b) ==
  \A k \in {"north", "south", "east", "west"} : Get(b, k).t = "num"

\* C11 amended: the box handleSearch hands to fitBounds for numeric bounds b
\* of the agent result has each degenerate axis of b widened by 0.05 on both
\* sides and every other axis as in b
C11_FitBoundsWidensDegenerateAxes ==
  [][\A i \in 1..MaxSearches :
       (/\ search[i].pc = "json"
        /\ search'[i].pc = "done"
        /\ search'[i].path = "agent"
        /\ mapRequest'.kind = "fitBounds"
        /\ C11_Numeric(Lookup(AgentResults, <<search[i].body, locations>>).mapBounds)) =>
         \A e \in { Lookup(AgentResults, <<search[i].body, locations>>).mapBounds } :
           /\ mapRequest'.sw[2].n =
                Get(e, "south").n
                  - (IF Get(e, "north") = Get(e, "south") THEN Padding ELSE 0)
           /\ mapRequest'.ne[2].n =
                Get(e, "north").n
                  + (IF Get(e, "north") = Get(e, "south") THEN Padding ELSE 0)
           /\ mapRequest'.sw[1].n =
                Get(e, "west").n
                  - (IF Get(e, "east") = Get(e, "west") THEN Padding ELSE 0)
           /\ mapRequest'.ne[1].n =
                Get(e, "east").n
                  + (IF Get(e, "east") = Get(e, "west") THEN Padding ELSE 0)
           /\ (Get(e, "north").n >= Get(e, "south").n
                 => mapRequest'.ne[2].n > mapRequest'.sw[2].n)
           /\ (Get(e, "east").n >= Get(e, "west").n
                 => mapRequest'.ne[1].n > mapRequest'.sw[1].n)]_vars

\* C11 at work: a point was widened on both axes on its way to the map
C11_Witness ==
  /\ mapRequest.kind = "fitBounds"
  /\ mapRequest.sw = <<Num(-7305), Num(3995)>>
  /\ mapRequest.ne = <<Num(-7295), Num(4005)>>

(***************************************************************************)
(* The marker at the head of the interpretation                            *)
(***************************************************************************)
\* the response bodies the agent path accepts, each with its response_text
C12_ResponseTexts ==
  { << JSONstringify(AsResponse(Inner("Done", <<FilterLocations(<<"LOC-3">>),
                                                SelectLocation("LOC-3")>>))),
       "Done" >>,
    << JSONstringify(AsMetadata(Inner("", <<ZoomMap(4000, 4000, -7300, -7400),
                                            SelectLocation("LOC-9")>>))),
       "" >>,
    << JSONstringify(Inner("Zoomed", <<ZoomMap(4000, 4000, -7300, -7300)>>)),
       "Zoomed" >>,
    << JSONstringify(Obj(<< <<"response", Str("Sorry, I cannot help with that")>> >>)),
       "" >> }

\* C12: a search that ends on the agent path displays the agent marker, a
\* space and response_text; a search that ends on the keyword path or in the
\* degraded-mode fallback displays an interpretation that does not start with
\* the agent marker
C12_MarkerTellsSource ==
  [][\A i \in 1..MaxSearches :
       (search[i].pc # "done" /\ search'[i].pc = "done") =>
         /\ search'[i].path = "agent" =>
              \E e \in C12_ResponseTexts :
                /\ e[1] = search[i].body
                /\ interpretation' = AgentMarker \o " " \o e[2]
         /\ search'[i].path \in {"keyword", "fallback"} =>
              ~StartsAt(interpretation', 1, AgentMarker)]_vars

\* C12 at work: one search ended on the agent path and a later one in the
\* fallback, whose prefixed interpretation is on display
C12_Witness ==
  /\ search[1].pc = "done" /\ search[1].path = "agent"
  /\ search[2].pc = "done" /\ search[2].path = "fallback"
  /\ writer = 2
  /\ StartsAt(interpretation, 1, DegradedPrefix)

(***************************************************************************)
(* Overlapping searches                                                    *)
(***************************************************************************)
\* C14: once a later search has written its result to the display, no search
\* started before it and still waiting for the remote agent writes over it
C14_StaleResultIsDiscarded ==
  [][\A i, j \in 1..MaxSearches :
       (i < j /\ writer = j /\ search[i].aiMode /\ search[i].pc \in {"fetch", "json"}) =>
         /\ writer' # i
         /\ (search'[i].pc = "done" =>
               /\ filtered' = filtered
               /\ activeFilters' = activeFilters
               /\ interpretation' = interpretation)]_vars

(***************************************************************************)
(* Properties of the filter blocks of parseQuery, checked under FnSpec     *)
(***************************************************************************)
\* the records of a list, as a set
Records(s) == { s[i] : i \in 1..Len(s) }

\* the normalized query of the call under study
CallQ == trim(toLowerCase(call.query))

\* the working states <<s0, ..., sk>> of a run of parseQuery: sj is the state
\* after the first j blocks, held at index j + 1
RECURSIVE BlockTrace(_, _, _, _)
BlockTrace(k, text, q, locs) ==
  IF k = 0 THEN << AfterBlocks(0, text, q, locs) >>
  ELSE LET before == BlockTrace(k - 1, text, q, locs)
       IN  Append(before, RunBlock(k, text, q, locs, before[k]))

\* the working states of the call under study
CallTrace == BlockTrace(NumBlocks, call.query, CallQ, call.locations)

\* the blocks that fired in the run tr: those that appended a fragment
FiredIn(tr) ==
  { k \in 1..NumBlocks :
      Len(tr[k + 1].interpretations) > Len(tr[k].interpretations) }

\* the records block k keeps when it is applied on its own to the record set
CallKeptAlone(k) ==
  Records(RunBlock(k, call.query, CallQ, call.locations,
                   AfterBlocks(0, call.query, CallQ, call.locations)).result)

\* the records of R that every block of the set F keeps
KeptByAll(F) ==
  LET kept == [k \in F |-> CallKeptAlone(k)]
  IN  SelectSeq(call.locations, LAMBDA l : \A k \in F : l \in kept[k])

\* C15: in a run of parseQuery the working set after each block is the
\* working set before it with some records left out, and the locations
\* returned are the records of R, in the order of R, that every block that
\* fired keeps
C15_MonotonicAndConjunctive ==
  (Returned("parseQuery") /\ CallQ \notin ShortCircuitTokens) =>
    \A tr \in { CallTrace } :
      /\ \A k \in 1..NumBlocks :
           tr[k + 1].result =
             SelectSeq(tr[k].result, LAMBDA l : l \in Records(tr[k + 1].result))
      /\ ~ret.threw => ret.locations = KeptByAll(FiredIn(tr))

\* C15 at work: two blocks fired, the first left two records of three and
\* the second one of those two
C15_Witness ==
  /\ Returned("parseQuery") /\ ~ret.threw
  /\ call.query = "Florida hurricane risk"
  /\ Len(call.locations) = MaxRecords
  /\ Len(CallTrace[2].result) = 2
  /\ Len(CallTrace[4].result) = 1
  /\ Len(ret.filters) = 2
  /\ Len(ret.locations) = 1

\* the address, city, named insured or location id of l contains q
C16_TextMatch(l, q) ==
  \/ includes(toLowerCase(l.address), q)
  \/ includes(toLowerCase(l.city), q)
  \/ (l.named_insured.t = "str" /\ includes(toLowerCase(l.named_insured.s), q))
  \/ includes(toLowerCase(l.location_id), q)

\* C16: the full-text search changes nothing when a filter descriptor was
\* appended; when none was, the locations returned are exactly the records of
\* the whole set whose address, city, named insured or location id contains
\* the normalized query, none when no record does
C16_FullTextFallback ==
  (Returned("parseQuery") /\ ~ret.threw /\ CallQ \notin ShortCircuitTokens) =>
    /\ Len(ret.filters) > 0 => CallTrace[NumBlocks + 1] = CallTrace[NumBlocks]
    /\ Len(ret.filters) = 0 =>
         ret.locations =
           SelectSeq(call.locations, LAMBDA l : C16_TextMatch(l, CallQ))

(***************************************************************************)
(* The interpretation string of parseQuery                                 *)
(***************************************************************************)
\* the fragments appended in the call under study
CallFragments == CallTrace[NumBlocks + 1].interpretations

\* C17 as stated: "No locations match: " and the query as typed for an empty
\* result; otherwise "<n> locations: " and the fragments joined with " + "
\* when there is a fragment, "<n> locations found" when there is none, n
\* the number of returned records, also for n = 1
C17_InterpretationAlwaysPlural ==
  (Returned("parseQuery") /\ ~ret.threw /\ CallQ \notin ShortCircuitTokens) =>
    ret.interpretation =
      IF Len(ret.locations) = 0 THEN "No locations match: " \o call.query
      ELSE IF Len(CallFragments) > 0
        THEN NatToString(Len(ret.locations)) \o " locations: "
               \o join(CallFragments, " + ")
      ELSE NatToString(Len(ret.locations)) \o " locations found"

\* the noun after the count n
C17_Noun(n) == IF n = 1 THEN " location" ELSE " locations"

\* C17 amended: as above, with the noun "location" when n = 1 and
\* "locations" for every other n
C17_Interpretation ==
  (Returned("parseQuery") /\ ~ret.threw /\ CallQ \notin ShortCircuitTokens) =>
    ret.interpretation =
      IF Len(ret.locations) = 0 THEN "No locations match: " \o call.query
      ELSE IF Len(CallFragments) > 0
        THEN NatToString(Len(ret.locations)) \o C17_Noun(Len(ret.locations))
               \o ": " \o join(CallFragments, " + ")
      ELSE NatToString(Len(ret.locations)) \o C17_Noun(Len(ret.locations))
             \o " found"

\* C17 at work: two fragments and a single record
C17_Witness ==
  /\ Returned("parseQuery") /\ ~ret.threw
  /\ call.query = "Florida hurricane risk"
  /\ Len(ret.locations) = 1
  /\ ret.interpretation = "1 location: FL + high hurricane risk"

(***************************************************************************)
(* The order of the filter descriptors                                     *)
(***************************************************************************)
\* the place of a descriptor type in the category order geography, peril,
\* value, protection, construction, age, status, claims, occupancy,
\* account/data-quality
C18_Category(type) ==
  CASE type \in {"state", "city"}          -> 1
    [] type = "peril"                      -> 2
    [] type = "tiv"                        -> 3
    [] type = "protection"                 -> 4
    [] type = "construction"               -> 5
    [] type = "age"                        -> 6
    [] type = "status"                     -> 7
    [] type = "claims"                     -> 8
    [] type = "occupancy"                  -> 9
    [] type \in {"mdm", "data", "account"} -> 10

\* C18 as stated: the descriptors returned follow the category order, so no
\* occupancy descriptor comes after an account or data-quality descriptor
C18_CategoryOrder ==
  (Returned("parseQuery") /\ ~ret.threw) =>
    \A i, j \in 1..Len(ret.filters) :
      i < j => C18_Category(ret.filters[i].type) <= C18_Category(ret.filters[j].type)

\* the category order of the source: the healthcare and university
\* descriptors, of type occupancy, come after all the others
C18_SourceCategory(f) ==
  IF f.id \in {"healthcare", "university"} THEN 11 ELSE C18_Category(f.type)

\* C18 amended: the descriptors returned follow the category order of the
\* source whatever the order of the words in the query: geography, peril,
\* value, protection, construction, age, status, claims, occupancy (office,
\* retail, warehouse, high rise), data-quality and account, and last the
\* occupancy descriptors healthcare and university
C18_SourceOrder ==
  (Returned("parseQuery") /\ ~ret.threw) =>
    /\ \A i, j \in 1..Len(ret.filters) :
         i < j => C18_SourceCategory(ret.filters[i])
                    <= C18_SourceCategory(ret.filters[j])
    /\ call.query \in {"Florida hurricane risk", "hurricane in florida"} =>
         [i \in 1..Len(ret.filters) |-> ret.filters[i].id] = <<"state-FL", "hurricane">>

\* C18 at work: a query that names the occupancy before the data-quality
\* issue got the data-quality descriptor first (and the state descriptor of
\* the "ca" in "healthcare" before both)
C18_Witness ==
  /\ Returned("parseQuery") /\ ~ret.threw
  /\ call.query = "healthcare locations with stale inspections"
  /\ [i \in 1..Len(ret.filters) |-> ret.filters[i].id]
       = <<"state-CA", "stale-inspection", "healthcare">>

(***************************************************************************)
(* The state and city dictionaries                                         *)
(***************************************************************************)
\* the ids of the descriptors of one type that the call under study returned
C19_Ids(type) ==
  { ret.filters[k].id : k \in { j \in 1..Len(ret.filters) : ret.filters[j].type = type } }

\* the descriptors of one type are none when no keyword of the dictionary
\* occurs in the query, else the single one of the first entry whose keyword
\* occurs
C19_FirstEntry(map, type) ==
  /\ Cardinality({ j \in 1..Len(ret.filters) : ret.filters[j].type = type }) <= 1
  /\ (\A i \in 1..Len(map) : ~includes(CallQ, map[i][1])) => C19_Ids(type) = {}
  /\ \A i \in 1..Len(map) :
       (/\ includes(CallQ, map[i][1])
        /\ \A j \in 1..(i - 1) : ~includes(CallQ, map[j][1])) =>
         C19_Ids(type) = { type \o "-" \o map[i][2] }

\* C19: a query yields at most one state filter and at most one city filter,
\* each that of the first entry of its dictionary, in declaration order,
\* whose keyword is a substring of the normalized query
C19_FirstDictionaryEntryWins ==
  (Returned("parseQuery") /\ ~ret.threw /\ CallQ \notin ShortCircuitTokens) =>
    /\ C19_FirstEntry(stateMap, "state")
    /\ C19_FirstEntry(cityMap, "city")

\* C19 at work: the query names Dallas before Austin and the dictionary
\* Austin before Dallas
C19_Witness ==
  /\ Returned("parseQuery") /\ ~ret.threw
  /\ call.query = "dallas and austin"
  /\ C19_Ids("city") = { "city-Austin" }
  /\ C19_Ids("state") = {}

(***************************************************************************)
(* The record set and the filter descriptors                               *)
(***************************************************************************)
\* C20: the filter descriptors parseQuery returns for a query are the same
\* for every record set: whatever the call under study returned, the same
\* query over any other record set returns the same list of descriptors
C20_FiltersDependOnQueryOnly ==
  Returned("parseQuery") =>
    \A R \in RecordSets :
      \A other \in { parseQuery(call.query, R) } :
        /\ other.threw = ret.threw
        /\ ~ret.threw => other.filters = ret.filters

(***************************************************************************)
(* The severity escalation of the peril filters                            *)
(***************************************************************************)
\* the labels of the descriptors with the given id that the call returned
LabelsOf(id) ==
  { ret.filters[k].label : k \in { j \in 1..Len(ret.filters) : ret.filters[j].id = id } }

\* the query of the call under study holds one of the intensity words
HasIntensityWord ==
  includes(CallQ, "high") \/ includes(CallQ, "severe") \/ includes(CallQ, "extreme")

\* the threshold a peril filter is to use: escalated with an intensity word
EscalatedOrBase(base, escalated) ==
  IF HasIntensityWord THEN escalated ELSE base

\* C21: the hurricane, earthquake and flood filters use their escalated
\* threshold exactly when the query holds "high", "severe" or "extreme",
\* and their base threshold otherwise (hurricane and earthquake 5 and 7,
\* flood 3 and 5)
C21_EscalatedIffIntensityWord ==
  (Returned("parseQuery") /\ ~ret.threw) =>
    /\ LabelsOf("hurricane")
         \subseteq { "Hurricane " \o GE \o NatToString(EscalatedOrBase(5, 7)) }
    /\ LabelsOf("earthquake")
         \subseteq { "Earthquake " \o GE \o NatToString(EscalatedOrBase(5, 7)) }
    /\ LabelsOf("flood")
         \subseteq { "Flood " \o GE \o NatToString(EscalatedOrBase(3, 5)) }

(***************************************************************************)
(* The threshold of the high-value filter                                  *)
(***************************************************************************)
\* the character c is a letter of the normalized query
IsLowerLetter(c) == \E d \in 1..Len(LowerChars) : CharAt(LowerChars, d) = c

\* the positions where an amount "<N>m" starts in q: a run of digits, then
\* the unit m standing on its own, not the first letter of a word
StatedAmountStarts(q) ==
  { i \in 1..Len(q) :
      /\ IsDigit(CharAt(q, i))
      /\ (i = 1 \/ ~IsDigit(CharAt(q, i - 1)))
      /\ \E m \in { SkipSpaces(q, SkipDigits(q, i)) } :
           /\ m <= Len(q) /\ CharAt(q, m) = "m"
           /\ (m = Len(q) \/ ~IsLowerLetter(CharAt(q, m + 1))) }

\* the threshold the query states: N x 1,000,000 for its first amount "<N>m",
\* 50,000,000 when it states none
StatedThreshold(q) ==
  IF StatedAmountStarts(q) = {} THEN 50000000
  ELSE \* the leftmost stated amount
       LET i == CHOOSE a \in StatedAmountStarts(q) :
                  \A b \in StatedAmountStarts(q) : a <= b
       IN  parseInt(SubSeq(q, i, SkipDigits(q, i) - 1)) * 1000000

\* C22: when the high-value block fires, its threshold is N x 1,000,000 for
\* the amount "<N>m" the query states and 50,000,000 when it states none,
\* and the block keeps exactly the records whose total_tiv is at least that
C22_ThresholdIsStatedAmount ==
  (Returned("parseQuery") /\ ~ret.threw /\ CallQ \notin ShortCircuitTokens
     /\ LabelsOf("high-tiv") # {}) =>
    \A tr \in { CallTrace } :
      /\ LabelsOf("high-tiv") = { "TIV " \o GE \o formatCurrency(StatedThreshold(CallQ)) }
      /\ tr[11].result =
           SelectSeq(tr[10].result, LAMBDA l : l.total_tiv >= StatedThreshold(CallQ))

(***************************************************************************)
(* Properties of the action dispatcher of processAgentResponse, checked    *)
(* under FnSpec                                                            *)
(***************************************************************************)
\* the action list the call under study walks through: the actions of the
\* object its envelope carries, <<>> when there are none to walk
CallActions ==
  IF IsNullish(call.agentResponse) THEN <<>>
  ELSE \* the value of result.actions || []
       LET env == NormalizeEnvelope(call.agentResponse)
           actions == IF ~env.ok \/ IsNullish(env.v) THEN Arr(<<>>)
                      ELSE OrElse(Get(env.v, "actions"), Arr(<<>>))
       IN  IF actions.t = "arr" THEN actions.a ELSE <<>>

\* the action has the given type
IsOfType(action, type) == ~IsNullish(action) /\ Get(action, "type") = Str(type)

\* the action carries a list of at least one location id
HasIds(action) ==
  /\ Truthy(Get(action, "location_ids"))
  /\ GreaterThanZero(Get(Get(action, "location_ids"), "length"))

\* the positions of the list acts whose action writes filteredLocations
FilteringAt(acts) ==
  { i \in 1..Len(acts) :
      \/ IsOfType(acts[i], "clear_filters")
      \/ /\ IsOfType(acts[i], "filter_locations") \/ IsOfType(acts[i], "highlight_locations")
         /\ HasIds(acts[i]) }

\* the positions whose action writes selectedLocation
SelectingAt(acts) ==
  { i \in 1..Len(acts) :
      IsOfType(acts[i], "select_location") /\ Truthy(Get(acts[i], "location_id")) }

\* the positions whose action writes mapBounds
ZoomingAt(acts) ==
  { i \in 1..Len(acts) : IsOfType(acts[i], "zoom_map") /\ Truthy(Get(acts[i], "bounds")) }

\* the greatest position of a non-empty set of positions
LastOf(S) == CHOOSE i \in S : \A j \in S : j <= i

\* what one filtering action yields when it is run against all the records
FilteredAlone(action, allLocations) ==
  IF IsOfType(action, "clear_filters") THEN allLocations
  ELSE SelectSeq(allLocations,
                 LAMBDA loc : IdsInclude(Get(action, "location_ids"), loc.location_id))

\* C23: the dispatcher is last-write-wins for each effect: the filtered
\* locations returned are those of the last filtering action alone, run
\* against all the records (all the records when there is none), the selected
\* location is that of the last select_location alone and the map bounds are
\* those of the last zoom_map alone
C23_LastWriteWins ==
  (Returned("processAgentResponse") /\ ~ret.threw) =>
    \A acts \in { CallActions } :
      /\ ret.filteredLocations =
           IF FilteringAt(acts) = {} THEN call.allLocations
           ELSE FilteredAlone(acts[LastOf(FilteringAt(acts))], call.allLocations)
      /\ ret.selectedLocation =
           IF SelectingAt(acts) = {} THEN Null
           ELSE FindLocation(call.allLocations,
                             Get(acts[LastOf(SelectingAt(acts))], "location_id"))
      /\ ret.mapBounds =
           IF ZoomingAt(acts) = {} THEN Null
           ELSE Get(acts[LastOf(ZoomingAt(acts))], "bounds")

\* C23 at work: two filter_locations actions with no id in common left the
\* records of the second, not the empty intersection
C23_Witness ==
  /\ Returned("processAgentResponse") /\ ~ret.threw
  /\ Len(call.allLocations) = MaxRecords
  /\ CallActions = << FilterLocations(<<"LOC-1">>), FilterLocations(<<"LOC-2", "LOC-3">>) >>
  /\ [i \in 1..Len(ret.filteredLocations) |-> ret.filteredLocations[i].location_id]
       = <<"LOC-2", "LOC-3">>

\* the list acts without its k-th action
Without(acts, k) == SubSeq(acts, 1, k - 1) \o SubSeq(acts, k + 1, Len(acts))

\* the locals of the dispatcher once it has walked through the list acts
Dispatched(acts, allLocations) == AfterActions(Len(acts), acts, allLocations)

\* the call under study ended as the dispatcher ends on the list acts: it
\* raised when that raises, and returned the same filtered locations,
\* selected location and map bounds when not
EndsAs(d) ==
  /\ ret.threw = d.threw
  /\ ~ret.threw =>
       /\ ret.filteredLocations = d.filteredLocs
       /\ ret.selectedLocation = d.selectedLoc
       /\ ret.mapBounds = d.mapBounds

\* the positions of the filter_locations actions with an empty or absent id list
EmptyFilterAt(acts) ==
  { k \in 1..Len(acts) :
      /\ IsOfType(acts[k], "filter_locations")
      /\ \E ids \in { Get(acts[k], "location_ids") } :
           ids.t = "undefined" \/ (ids.t = "arr" /\ Len(ids.a) = 0) }

\* C24: a filter_locations action whose id list is empty or absent changes
\* none of the filtered locations, the selected location and the map bounds:
\* the call ends as it does on the list without that action
C24_EmptyFilterIsNoOp ==
  Returned("processAgentResponse") =>
    \A acts \in { CallActions } :
      \A k \in EmptyFilterAt(acts) :
        EndsAs(Dispatched(Without(acts, k), call.allLocations))

\* C24 at work: an empty id list after a filter that kept one record of three
\* left that one record, and an absent id list alone left all three
C24_Witness ==
  /\ Returned("processAgentResponse") /\ ~ret.threw
  /\ Len(call.allLocations) = MaxRecords
  /\ \/ /\ CallActions = << FilterLocations(<<"LOC-1">>), FilterLocations(<<>>) >>
        /\ Len(ret.filteredLocations) = 1
     \/ /\ CallActions = << Obj(<< <<"type", Str("filter_locations")>> >>) >>
        /\ Len(ret.filteredLocations) = MaxRecords

\* the id the last select_location of the list acts asks for
LastSelectedId(acts) == Get(acts[LastOf(SelectingAt(acts))], "location_id")

\* C25: when the last select_location of the list names an id that no record
\* has, the selected location returned is null, whatever an earlier
\* select_location had selected; and the selected location returned is always
\* null or one of the records given
C25_UnmatchedSelectClears ==
  (Returned("processAgentResponse") /\ ~ret.threw) =>
    \A acts \in { CallActions } :
      /\ (/\ SelectingAt(acts) # {}
          /\ \A l \in Records(call.allLocations) :
               Str(l.location_id) # LastSelectedId(acts))
           => ret.selectedLocation = Null
      /\ ret.selectedLocation = Null \/ ret.selectedLocation \in Records(call.allLocations)

\* C25 at work: the first select_location found its record among the three
\* given, the second named an id none of them has, and null was returned
C25_Witness ==
  /\ Returned("processAgentResponse") /\ ~ret.threw
  /\ Len(call.allLocations) = MaxRecords
  /\ CallActions = << SelectLocation("LOC-1"), SelectLocation("LOC-9") >>
  /\ Dispatched(<< SelectLocation("LOC-1") >>, call.allLocations).selectedLoc
       = call.allLocations[1]
  /\ ret.selectedLocation = Null

\* the positions of the clear_filters actions of the list acts
ClearingAt(acts) == { k \in 1..Len(acts) : IsOfType(acts[k], "clear_filters") }

\* C26: a clear_filters action puts the filtered locations back to all the
\* records given and leaves the selected location and the map bounds as the
\* actions before it left them; when it is the last action, that is what the
\* call returns
C26_ClearFiltersResetsOnly ==
  Returned("processAgentResponse") =>
    \A acts \in { CallActions } :
      \A k \in ClearingAt(acts) :
        \A before \in { Dispatched(SubSeq(acts, 1, k - 1), call.allLocations) } :
          \A after \in { Dispatched(SubSeq(acts, 1, k), call.allLocations) } :
            ~before.threw =>
              /\ ~after.threw
              /\ after.filteredLocs = call.allLocations
              /\ after.selectedLoc = before.selectedLoc
              /\ after.mapBounds = before.mapBounds
              /\ k = Len(acts) =>
                   /\ ~ret.threw
                   /\ ret.filteredLocations = call.allLocations
                   /\ ret.selectedLocation = before.selectedLoc
                   /\ ret.mapBounds = before.mapBounds

\* C26 at work: a filter had left one record of three and clear_filters
\* brought the three back
C26_Witness ==
  /\ Returned("processAgentResponse") /\ ~ret.threw
  /\ Len(call.allLocations) = MaxRecords
  /\ CallActions = << FilterLocations(<<"LOC-1">>), ClearFilters >>
  /\ Len(Dispatched(<< FilterLocations(<<"LOC-1">>) >>, call.allLocations).filteredLocs) = 1
  /\ ret.filteredLocations = call.allLocations

\* the types the switch of the dispatcher names
KnownTypes ==
  { Str("filter_locations"), Str("select_location"), Str("zoom_map"),
    Str("clear_filters"), Str("highlight_locations") }

\* the positions of the actions of the list acts whose type the switch does
\* not name
UnknownAt(acts) ==
  { k \in 1..Len(acts) : ~IsNullish(acts[k]) /\ Get(acts[k], "type") \notin KnownTypes }

\* C27: an action whose type the dispatcher does not know is ignored: the
\* call raises exactly when it raises on the list without that action, and
\* returns the filtered locations, selected location and map bounds it
\* returns on the list without it
C27_UnknownTypeIsIgnored ==
  Returned("processAgentResponse") =>
    \A acts \in { CallActions } :
      \A k \in UnknownAt(acts) :
        EndsAs(Dispatched(Without(acts, k), call.allLocations))

\* C27 at work: a filter left one record of three, an open_panel action
\* naming another record followed, and the call returned that one record
\* with nothing selected
C27_Witness ==
  /\ Returned("processAgentResponse") /\ ~ret.threw
  /\ Len(call.allLocations) = MaxRecords
  /\ Len(CallActions) = 2
  /\ CallActions[1] = FilterLocations(<<"LOC-1">>)
  /\ UnknownAt(CallActions) = {2}
  /\ Get(CallActions[2], "type") = Str("open_panel")
  /\ ret.filteredLocations = << call.allLocations[1] >>
  /\ ret.selectedLocation = Null

(***************************************************************************)
(* Properties of handleSearch in AI mode, checked under Spec               *)
(***************************************************************************)
\* the 2xx bodies whose nested response string is not JSON text
BodiesWithUnparsableResponse ==
  { e[1] : e \in { b \in BodyValues :
                     /\ b[2].ok
                     /\ ~IsNullish(b[2].v)
                     /\ \E inner \in { Get(b[2].v, "response") } :
                          /\ inner.t = "str"
                          /\ Truthy(inner)
                          /\ ~JSONparse(inner.s).ok } }

\* C28: in AI mode a 2xx response whose nested response string is not valid
\* JSON is not treated as a transport failure: the step that reads it ends
\* the search on the agent path without running the keyword parser, with all
\* the records displayed, no active filter, the selection as it was and the
\* agent marker followed by an empty text as interpretation
C28_UnparsableResponseIsAgentResult ==
  [][\A i \in 1..MaxSearches :
       (/\ search[i].pc = "json"
        /\ search[i].body \in BodiesWithUnparsableResponse
        /\ search'[i].pc # "json") =>
         /\ search'[i].pc = "done"
         /\ search'[i].path = "agent"
         /\ search'[i].parserRuns = search[i].parserRuns
         /\ filtered' = locations
         /\ activeFilters' = <<>>
         /\ selected' = selected
         /\ interpretation' = AgentMarker \o " "]_vars

\* C28 at work: a search over a portfolio with a record selected ended on the
\* agent path with an empty agent text, no map bounds and no parser run
C28_Witness ==
  /\ BodiesWithUnparsableResponse # {}
  /\ \E i \in 1..MaxSearches :
       /\ search[i].pc = "done"
       /\ search[i].path = "agent"
       /\ search[i].parserRuns = 0
       /\ writer = i
  /\ interpretation = AgentMarker \o " "
  /\ mapRequest.kind = "zoomToLocations"
  /\ selected # Null
  /\ filtered = locations
  /\ activeFilters = <<>>

(***************************************************************************)
(* The searching flag                                                      *)
(***************************************************************************)
\* the invocations of handleSearch that have started and not finished: they
\* wait for their timer, for the agent or for the body of its response
InFlight == { i \in 1..MaxSearches : search[i].pc \in {"timer", "fetch", "json"} }

\* C29: the searching flag is true in every state in which at least one
\* invocation of handleSearch has started and not finished; in particular,
\* with two invocations overlapping, the end of one does not clear the flag
\* while the other still waits
C29_SearchingWhileInFlight == InFlight # {} => searching

(***************************************************************************)
(* The selection after an AI-mode search                                   *)
(***************************************************************************)
\* search i ends in this step with the result of the agent on display
EndsOnAgentPath(i) ==
  search[i].pc = "json" /\ search'[i].pc = "done" /\ search'[i].path = "agent"

\* the selectedLocation the dispatcher returns for the body search i reads
DispatchedSelection(i) ==
  Lookup(AgentResults, <<search[i].body, locations>>).selectedLocation

\* C30 as claimed: after a successful AI-mode search the selection on display
\* is the selectedLocation of the dispatcher, so that null clears it
C30_SelectionIsDispatched ==
  [][\A i \in 1..MaxSearches :
       EndsOnAgentPath(i) => selected' = DispatchedSelection(i)]_vars

\* C30: after a successful AI-mode search the selection on display is the
\* selectedLocation of the dispatcher when that is a record, and the
\* selection of before the search when the dispatcher returns null
C30_SelectionIsDispatchedOrKept ==
  [][\A i \in 1..MaxSearches :
       EndsOnAgentPath(i) =>
         /\ DispatchedSelection(i) # Null => selected' = DispatchedSelection(i)
         /\ DispatchedSelection(i) = Null => selected' = selected]_vars

\* C30 at work: a record was selected, the agent then asked for map bounds
\* and for a record that does not exist, and the record is still selected
C30_Witness ==
  /\ \E i \in 1..MaxSearches :
       search[i].pc = "done" /\ search[i].path = "agent" /\ writer = i
  /\ mapRequest.kind = "fitBounds"
  /\ interpretation = AgentMarker \o " "
  /\ selected # Null
  /\ selected \in Records(locations)

=============================================================================
